---- MODULE Spec2Model ----
(***************************************************************************)
(* State-machine model of the MLPA scale version graph: the scale          *)
(* collection (a JS Map, insertion ordered), the upload / mock-load        *)
(* pipeline, the branching pipeline with its in-progress guard, cascade    *)
(* delete, and the flow editor's test helpers.                             *)
(***************************************************************************)
EXTENDS Integers, Sequences, FiniteSets, TLC

\* ------------------------------------------------------------------------
\* Bounds of the model
\* ------------------------------------------------------------------------
\* MaxScales: a mock load or a branching call is started only if the Map,
\*            with the branches still to come, stays within this size
\* MaxOps:    user inputs (clicks, drops, console calls) in a behaviour
\* MaxIngest: handleFiles calls suspended at an await at the same time
\* MaxMoves:  testMoveParent calls in a behaviour
\* MaxGraph:  scales in a collection of the graph harness
MaxScales == 4
MaxOps == 7
MaxIngest == 1
MaxMoves == 1
MaxGraph == 4

\* ------------------------------------------------------------------------
\* Program constants
\* ------------------------------------------------------------------------
HORIZONTAL_STEP == 550
VERTICAL_GAP == 24
ESTIMATED_HEIGHT == 180
ROW_HEIGHT == ESTIMATED_HEIGHT + VERTICAL_GAP
RootX == 100
RootY == 250
FallbackX == 100
FallbackY == 100
MoveDelta == 50

\* ------------------------------------------------------------------------
\* Scale ids.  An id string "<root>-branch-n1-branch-n2..." is kept as its
\* root name and the list of branch numbers; NullId is JS null/undefined.
\* ------------------------------------------------------------------------
MkId(r, p) == [root |-> r, path |-> p]
NullId == MkId("null", <<>>)
MockRootId == MkId("skala-asli", <<>>)
MockGenzId == MkId("skala-genz", <<>>)
MockBoomerId == MkId("skala-boomer", <<>>)
ImportedId == MkId("imported-scale", <<>>)

\* `${sourceScaleId}-branch-${n}`
BranchId(src, n) == MkId(src.root, Append(src.path, n))

\* id.startsWith(sourceScaleId + '-branch')
StartsWithBranch(id, src) ==
    /\ id.root = src.root
    /\ Len(id.path) > Len(src.path)
    /\ SubSeq(id.path, 1, Len(src.path)) = src.path

\* branch_index of a scale that has none (roots): JS undefined
Undefined == -1

Pos(px, py) == [x |-> px, y |-> py]

\* ------------------------------------------------------------------------
\* The scales Map: a sequence of scale records in insertion order
\* ------------------------------------------------------------------------
MapKeys(m) == {m[i].scale_id : i \in 1..Len(m)}
MapHas(m, id) == \E i \in 1..Len(m) : m[i].scale_id = id
MapIndex(m, id) == CHOOSE i \in 1..Len(m) : m[i].scale_id = id
MapGet(m, id) == m[MapIndex(m, id)]

\* Map.prototype.set: an existing key keeps its place, a new key is appended
MapSet(m, s) ==
    IF MapHas(m, s.scale_id)
    THEN [m EXCEPT ![MapIndex(m, s.scale_id)] = s]
    ELSE Append(m, s)

RECURSIVE MapDeleteAll(_, _)
MapDeleteAll(m, ids) ==
    IF m = <<>> THEN <<>>
    ELSE IF Head(m).scale_id \in ids
         THEN MapDeleteAll(Tail(m), ids)
         ELSE <<Head(m)>> \o MapDeleteAll(Tail(m), ids)

Reverse(m) == [i \in 1..Len(m) |-> m[Len(m) + 1 - i]]

\* ------------------------------------------------------------------------
\* Graph queries (logic/scaleGraph.js)
\* ------------------------------------------------------------------------
\* One `for (const [sId, s] of scales)` scan of buildCascadeDeleteSet,
\* from index i on, growing toDelete while it scans.
RECURSIVE ScanFrom(_, _, _)
ScanFrom(m, i, toDelete) ==
    IF i > Len(m) THEN toDelete
    ELSE IF /\ m[i].scale_id \notin toDelete
            /\ m[i].parent_scale_id # NullId
            /\ m[i].parent_scale_id \in toDelete
         THEN ScanFrom(m, i + 1, toDelete \cup {m[i].scale_id})
         ELSE ScanFrom(m, i + 1, toDelete)

\* The `while (modified)` loop: rescan until a scan adds nothing.
RECURSIVE CascadeLoop(_, _)
CascadeLoopOnePass(m, toDelete) == ScanFrom(m, 1, toDelete)
CascadeLoop(m, toDelete) ==
    LET next == ScanFrom(m, 1, toDelete)
    IN IF next = toDelete THEN toDelete ELSE CascadeLoop(m, next)

buildCascadeDeleteSet(m, targetId) == CascadeLoop(m, {targetId})

\* ------------------------------------------------------------------------
\* Branch positioning (layout/branchPositioning.js)
\* ------------------------------------------------------------------------
NoScale == [scale_id |-> NullId]

\* a layout that stacks every branch below its parent
getNextBranchPositionStacked(parentScale, branch_index) ==
    IF parentScale = NoScale
    THEN [x |-> FallbackX, y |-> FallbackY, branch_index |-> 0, depth |-> 1]
    ELSE [x |-> parentScale.position.x + HORIZONTAL_STEP,
          y |-> parentScale.position.y + (branch_index + 1) * ROW_HEIGHT,
          branch_index |-> branch_index,
          depth |-> parentScale.depth + 1]

getNextBranchPosition(parentScale, branch_index) ==
    IF parentScale = NoScale
    THEN [x |-> FallbackX, y |-> FallbackY, branch_index |-> 0, depth |-> 1]
    ELSE LET layer == (branch_index \div 2) + 1
             direction == 2 * (branch_index % 2) - 1
         IN [x |-> parentScale.position.x + HORIZONTAL_STEP,
             y |-> parentScale.position.y + direction * layer * ROW_HEIGHT,
             branch_index |-> branch_index,
             depth |-> parentScale.depth + 1]

\* a lookup that takes the index from the number of children the source has
editorNextBranchPositionBySiblings(m, sourceScaleId, branch_index) ==
    getNextBranchPosition(
        IF MapHas(m, sourceScaleId) THEN MapGet(m, sourceScaleId) ELSE NoScale,
        Cardinality({i \in 1..Len(m) :
                        m[i].parent_scale_id = sourceScaleId}) - 1)

\* flowEditor.getNextBranchPosition: looks the source up in the Map first
editorNextBranchPosition(m, sourceScaleId, branch_index) ==
    getNextBranchPosition(
        IF MapHas(m, sourceScaleId) THEN MapGet(m, sourceScaleId) ELSE NoScale,
        branch_index)

\* ------------------------------------------------------------------------
\* State
\* ------------------------------------------------------------------------
VARIABLES
    scales,                 \* state.canvasState.scales (Map, insertion order)
    activeScaleId,          \* state.canvasState.activeScaleId
    currentScreen,          \* state.currentScreen
    isProcessing,           \* state.isProcessing
    ingest,                 \* handleFiles calls suspended at an await, per stage
    isBranchingInProgress,  \* state.canvasState.isBranchingInProgress
    branchingFromScaleId,   \* state.canvasState.branchingFromScaleId
    popupOpen,              \* #branching-popup is not hidden
    adaptCalls,             \* handleBranchingSubmit calls suspended at the await
    lastEvent,              \* the last outcome a handler reported (alert, log)
    removedIds,             \* ids that have been deleted from the Map
    moves,                  \* number of testMoveParent calls so far
    ops,                    \* number of user inputs so far
    cascade,                \* result of the last cascade query (graph harness)
    adaptation              \* one run of the adaptation adapter (adapter harness)

vars == <<scales, activeScaleId, currentScreen, isProcessing, ingest,
          isBranchingInProgress, branchingFromScaleId, popupOpen, adaptCalls,
          lastEvent, removedIds, moves, ops, cascade, adaptation>>

\* no cascade query has been made
NoQuery == [target |-> NullId, ids |-> {}]

\* the adapter has not been called
NoAdaptation == [stage |-> "none"]

IngestIdle == [reading |-> 0, structuring |-> 0, confirming |-> 0]
IngestCount == ingest.reading + ingest.structuring + ingest.confirming

Init ==
    /\ scales = <<>>
    /\ activeScaleId = MockRootId
    /\ currentScreen = 1
    /\ isProcessing = FALSE
    /\ ingest = IngestIdle
    /\ isBranchingInProgress = FALSE
    /\ branchingFromScaleId = NullId
    /\ popupOpen = FALSE
    /\ adaptCalls = <<>>
    /\ lastEvent = "none"
    /\ removedIds = {}
    /\ moves = 0
    /\ ops = 0
    /\ cascade = NoQuery
    /\ adaptation = NoAdaptation

\* ------------------------------------------------------------------------
\* Scale objects
\* ------------------------------------------------------------------------
NoPosition == Pos(Undefined, Undefined)
CanvasHeight == 720

MkScale(id, name, parent, isRoot, depth, bidx, pos, locked) ==
    [scale_id |-> id, scale_name |-> name, parent_scale_id |-> parent,
     is_root |-> isRoot, depth |-> depth,
     branch_index |-> bidx, position |-> pos, positionLocked |-> locked]

\* createMockScale / buildScaleFromGPT / createFallbackScale: a root object
createMockScale ==
    MkScale(MockRootId, "Skala Asli", NullId, TRUE, 0, Undefined,
            Pos(RootX, RootY), FALSE)

buildScaleFromGPTDepthOne ==
    MkScale(ImportedId, "gpt", NullId, TRUE, 1, Undefined,
            Pos(RootX, RootY), FALSE)
buildScaleFromGPT ==
    MkScale(ImportedId, "gpt", NullId, TRUE, 0, Undefined,
            Pos(RootX, RootY), FALSE)

createFallbackScale ==
    MkScale(ImportedId, "csv", NullId, TRUE, 0, Undefined,
            Pos(RootX, RootY), FALSE)

\* The object literal of handleLoadMock / handleBranchingSubmit for a branch
MkBranch(id, name, parentId, p) ==
    MkScale(id, name, parentId, FALSE, p.depth, p.branch_index,
            Pos(p.x, p.y), TRUE)

\* flowEditor.renderAll: auto-positions a scale only when it has no position
\* and is not locked; everything else it does is DOM output.
renderAll(m) ==
    [i \in 1..Len(m) |->
        IF m[i].position = NoPosition /\ ~m[i].positionLocked
        THEN [m[i] EXCEPT !.position =
                 Pos(RootX, (CanvasHeight - 120) \div 2)]
        ELSE m[i]]

\* ------------------------------------------------------------------------
\* Screen navigation
\* ------------------------------------------------------------------------
\* showScreen(n), exported as window.goToScreen; screen 3 re-renders
ShowScreen(n) ==
    /\ ops < MaxOps
    /\ ops' = ops + 1
    /\ currentScreen' = n
    /\ scales' = IF n = 3 THEN renderAll(scales) ELSE scales
    /\ UNCHANGED <<activeScaleId, isProcessing, ingest, isBranchingInProgress,
                   branchingFromScaleId, popupOpen, adaptCalls, lastEvent,
                   removedIds, moves, cascade, adaptation>>

\* a sidebar nav item: switchInnerScreen(2 or 3), shown once the app is active
NavClick(n) ==
    /\ ops < MaxOps
    /\ ops' = ops + 1
    /\ currentScreen # 1
    /\ n \in {2, 3}
    /\ currentScreen' = n
    /\ scales' = IF n = 3 THEN renderAll(scales) ELSE scales
    /\ UNCHANGED <<activeScaleId, isProcessing, ingest, isBranchingInProgress,
                   branchingFromScaleId, popupOpen, adaptCalls, lastEvent,
                   removedIds, moves, cascade, adaptation>>

\* ------------------------------------------------------------------------
\* Mock load (welcome screen button)
\* ------------------------------------------------------------------------
HandleLoadMock ==
    /\ ops < MaxOps
    /\ ops' = ops + 1
    /\ currentScreen = 1
    /\ Cardinality(MapKeys(scales) \cup {MockRootId, MockGenzId, MockBoomerId})
          + Len(adaptCalls) <= MaxScales
    /\ LET m1 == MapSet(scales, createMockScale)
           m2 == MapSet(m1, MkBranch(MockGenzId, "Skala Gen-Z", MockRootId,
                        editorNextBranchPosition(m1, MockRootId, 0)))
           m3 == MapSet(m2, MkBranch(MockBoomerId, "Skala Boomer", MockRootId,
                        editorNextBranchPosition(m2, MockRootId, 1)))
       IN scales' = m3
    /\ activeScaleId' = MockRootId
    /\ currentScreen' = 2
    /\ UNCHANGED <<isProcessing, ingest, isBranchingInProgress,
                   branchingFromScaleId, popupOpen, adaptCalls, lastEvent,
                   removedIds, moves, cascade, adaptation>>

\* ------------------------------------------------------------------------
\* File ingest (handleFiles); each await is a step boundary
\* ------------------------------------------------------------------------
\* What OpenAIAPI.structureCSVToScale resolves to, as far as handleFiles
\* looks at it: is_valid_scale, has_dimensions, dimensions.length
StructResult(v, h, n) ==
    [is_valid_scale |-> v, has_dimensions |-> h, dimensions |-> n]
StructResults ==
    {StructResult(FALSE, TRUE, 0), StructResult(TRUE, FALSE, 1),
     StructResult(TRUE, FALSE, 0), StructResult(TRUE, TRUE, 1),
     StructResult(TRUE, TRUE, 0)}

IngestMove(from, to) ==
    IF to = "done"
    THEN [ingest EXCEPT ![from] = @ - 1]
    ELSE [[ingest EXCEPT ![from] = @ - 1] EXCEPT ![to] = @ + 1]

\* scales.clear(); scales.set(root); activeScaleId = root; showScreen(2);
\* finally isProcessing = false
ImportRoot(from, rootScale) ==
    /\ scales' = MapSet(<<>>, rootScale)
    /\ removedIds' = removedIds \cup MapKeys(scales)
    /\ activeScaleId' = rootScale.scale_id
    /\ currentScreen' = 2
    /\ isProcessing' = FALSE
    /\ ingest' = IngestMove(from, "done")
    /\ lastEvent' = "imported"
    /\ UNCHANGED <<isBranchingInProgress, branchingFromScaleId, popupOpen,
                   adaptCalls, moves, cascade, adaptation>>

\* an abort that has already cleared the Map for the new root
IngestAbortClearing(from, event) ==
    /\ lastEvent' = event
    /\ isProcessing' = FALSE
    /\ ingest' = IngestMove(from, "done")
    /\ scales' = <<>>
    /\ removedIds' = removedIds \cup MapKeys(scales)
    /\ UNCHANGED <<activeScaleId, currentScreen,
                   isBranchingInProgress, branchingFromScaleId, popupOpen,
                   adaptCalls, moves, cascade, adaptation>>

\* an early return or a caught error: only the finally block acts
IngestAbort(from, event) ==
    /\ lastEvent' = event
    /\ isProcessing' = FALSE
    /\ ingest' = IngestMove(from, "done")
    /\ UNCHANGED <<scales, activeScaleId, currentScreen,
                   isBranchingInProgress, branchingFromScaleId, popupOpen,
                   adaptCalls, removedIds, moves, cascade, adaptation>>

\* handleDrop / handleFileSelect -> handleFiles, up to `await readFileAsText`
HandleFiles(isCSV) ==
    /\ ops < MaxOps
    /\ ops' = ops + 1
    /\ currentScreen = 1
    /\ IF ~isCSV
       THEN /\ lastEvent' = "unsupported_format"
            /\ UNCHANGED <<isProcessing, ingest>>
       ELSE /\ IngestCount < MaxIngest
            /\ isProcessing' = TRUE
            /\ ingest' = [ingest EXCEPT !.reading = @ + 1]
            /\ UNCHANGED lastEvent
    /\ UNCHANGED <<scales, activeScaleId, currentScreen,
                   isBranchingInProgress, branchingFromScaleId, popupOpen,
                   adaptCalls, removedIds, moves, cascade, adaptation>>

\* readFileAsText settles; configured is what OpenAIAPI.isConfigured()
\* answers when the call resumes
FileRead(ok, configured) ==
    /\ UNCHANGED ops
    /\ ingest.reading > 0
    /\ IF ~ok
       THEN IngestAbort("reading", "upload_error")
       ELSE IF configured
            THEN /\ ingest' = IngestMove("reading", "structuring")
                 /\ UNCHANGED <<scales, activeScaleId, currentScreen,
                                isProcessing, isBranchingInProgress,
                                branchingFromScaleId, popupOpen, adaptCalls,
                                lastEvent, removedIds, moves, cascade, adaptation>>
            ELSE ImportRoot("reading", createFallbackScale)

\* the root handleFiles builds from a structuring result
RootFromStructured(r) ==
    IF r.dimensions > 0 THEN buildScaleFromGPT
    ELSE createFallbackScale

\* OpenAIAPI.structureCSVToScale rejects
StructureFailed ==
    /\ UNCHANGED ops
    /\ ingest.structuring > 0
    /\ IngestAbort("structuring", "upload_error")

\* OpenAIAPI.structureCSVToScale resolves with r
StructureDone(r) ==
    /\ UNCHANGED ops
    /\ ingest.structuring > 0
    /\ IF r.is_valid_scale = FALSE
       THEN IngestAbort("structuring", "upload_rejected")
       ELSE IF r.has_dimensions = FALSE
            THEN /\ ingest' = IngestMove("structuring", "confirming")
                 /\ UNCHANGED <<scales, activeScaleId, currentScreen,
                                isProcessing, isBranchingInProgress,
                                branchingFromScaleId, popupOpen, adaptCalls,
                                lastEvent, removedIds, moves, cascade, adaptation>>
            ELSE ImportRoot("structuring", RootFromStructured(r))

\* the dimension confirmation modal is answered; r is the structuring
\* result the suspended call holds
ConfirmDone(yes, r) ==
    /\ UNCHANGED ops
    /\ ingest.confirming > 0
    /\ r.is_valid_scale /\ ~r.has_dimensions
    /\ IF yes
       THEN ImportRoot("confirming", RootFromStructured(r))
       ELSE IngestAbort("confirming", "upload_declined")

\* ------------------------------------------------------------------------
\* Branching (flow editor)
\* ------------------------------------------------------------------------
\* Adaptation payloads: [error, scale_name, dimensions: <<[name, items:
\* <<[text]>>]>>]; a JS string that is absent or empty is ""
Item(t) == [text |-> t]
Dim(n, its) == [name |-> n, items |-> its]
Gpt(e, n, ds) == [error |-> e, scale_name |-> n, dimensions |-> ds]
GptValid == Gpt("", "Adaptasi", <<Dim("D1", <<Item("t1")>>)>>)
GptResults ==
    {GptValid,
     Gpt("API Error 500", "", <<>>),
     Gpt("", "", <<Dim("D1", <<Item("t1")>>)>>),
     Gpt("", "Adaptasi", <<>>),
     Gpt("", "Adaptasi", <<Dim("", <<Item("t1")>>)>>),
     Gpt("", "Adaptasi", <<Dim("D1", <<>>)>>),
     Gpt("", "Adaptasi", <<Dim("D1", <<Item("")>>)>>)}

\* the per-dimension loop of validateGptScale from dimension i on: the
\* first failing check's error, "" when every check passes
RECURSIVE validateDimsFrom(_, _)
validateDimsFrom(ds, i) ==
    IF i > Len(ds) THEN ""
    ELSE IF ds[i].name = "" THEN "Dimension missing name"
    ELSE IF Len(ds[i].items) = 0 THEN "Dimension has no items"
    ELSE IF \E j \in 1..Len(ds[i].items) : ds[i].items[j].text = ""
         THEN "Item missing text"
    ELSE validateDimsFrom(ds, i + 1)

\* flowEditor.validateGptScale, the checks that decide `valid`
validateGptScale(g) ==
    IF g.error # "" THEN [valid |-> FALSE, error |-> g.error]
    ELSE IF g.scale_name = ""
         THEN [valid |-> FALSE, error |-> "Missing scale_name"]
    ELSE IF Len(g.dimensions) = 0
         THEN [valid |-> FALSE, error |-> "Missing or empty dimensions"]
    ELSE IF validateDimsFrom(g.dimensions, 1) # ""
         THEN [valid |-> FALSE, error |-> validateDimsFrom(g.dimensions, 1)]
    ELSE [valid |-> TRUE, error |-> ""]

\* openBranchingPopup(scaleId): the branch button of a rendered flow box
OpenBranchingPopup(id) ==
    /\ ops < MaxOps
    /\ ops' = ops + 1
    /\ currentScreen = 3
    /\ id \in MapKeys(scales)
    /\ branchingFromScaleId' = id
    /\ popupOpen' = TRUE
    /\ UNCHANGED <<scales, activeScaleId, currentScreen, isProcessing, ingest,
                   isBranchingInProgress, adaptCalls, lastEvent,
                   removedIds, moves, cascade, adaptation>>

\* the popup's close button
CloseBranchingPopup ==
    /\ ops < MaxOps
    /\ ops' = ops + 1
    /\ currentScreen = 3
    /\ popupOpen
    /\ popupOpen' = FALSE
    /\ UNCHANGED <<scales, activeScaleId, currentScreen, isProcessing, ingest,
                   isBranchingInProgress, branchingFromScaleId, adaptCalls,
                   lastEvent, removedIds, moves, cascade, adaptation>>

\* the guard at the top of handleBranchingSubmit
SubmitGuardOff(busy) == FALSE
SubmitGuard(busy) == busy

\* a submit that takes the lock before it looks at the input and the source
HandleBranchingSubmitLockFirst(adaptationIntent) ==
    /\ ops < MaxOps
    /\ ops' = ops + 1
    /\ currentScreen = 3
    /\ popupOpen
    /\ IF SubmitGuard(isBranchingInProgress)
       THEN /\ lastEvent' = "rejected_in_progress"
            /\ UNCHANGED <<isBranchingInProgress, adaptCalls>>
       ELSE IF adaptationIntent = ""
       THEN /\ lastEvent' = "rejected_empty_input"
            /\ isBranchingInProgress' = TRUE
            /\ UNCHANGED adaptCalls
       ELSE IF ~MapHas(scales, branchingFromScaleId)
       THEN /\ lastEvent' = "rejected_source_not_found"
            /\ isBranchingInProgress' = TRUE
            /\ UNCHANGED adaptCalls
       ELSE /\ Len(scales) + Len(adaptCalls) < MaxScales
            /\ isBranchingInProgress' = TRUE
            /\ adaptCalls' = Append(adaptCalls,
                                [sourceScaleId |-> branchingFromScaleId])
            /\ lastEvent' = "calling"
    /\ UNCHANGED <<scales, activeScaleId, currentScreen, isProcessing, ingest,
                   branchingFromScaleId, popupOpen, removedIds,
                   moves, cascade, adaptation>>

\* handleBranchingSubmit up to `await OpenAIAPI.adaptScale(...)`
HandleBranchingSubmit(adaptationIntent) ==
    /\ ops < MaxOps
    /\ ops' = ops + 1
    /\ currentScreen = 3
    /\ popupOpen
    /\ IF SubmitGuard(isBranchingInProgress)
       THEN /\ lastEvent' = "rejected_in_progress"
            /\ UNCHANGED <<isBranchingInProgress, adaptCalls>>
       ELSE IF adaptationIntent = ""
       THEN /\ lastEvent' = "rejected_empty_input"
            /\ UNCHANGED <<isBranchingInProgress, adaptCalls>>
       ELSE IF ~MapHas(scales, branchingFromScaleId)
       THEN /\ lastEvent' = "rejected_source_not_found"
            /\ UNCHANGED <<isBranchingInProgress, adaptCalls>>
       ELSE /\ Len(scales) + Len(adaptCalls) < MaxScales
            /\ isBranchingInProgress' = TRUE
            /\ adaptCalls' = Append(adaptCalls,
                                [sourceScaleId |-> branchingFromScaleId])
            /\ lastEvent' = "calling"
    /\ UNCHANGED <<scales, activeScaleId, currentScreen, isProcessing, ingest,
                   branchingFromScaleId, popupOpen, removedIds,
                   moves, cascade, adaptation>>

RemoveAt(q, i) == SubSeq(q, 1, i - 1) \o SubSeq(q, i + 1, Len(q))

\* a count of every branch in the Map, whatever its source, plus one
BranchCountAnySource(m, sourceScaleId) ==
    Cardinality({i \in 1..Len(m) : m[i].parent_scale_id # NullId}) + 1

\* number of Map keys that start with sourceScaleId + '-branch', plus one
BranchCount(m, sourceScaleId) ==
    Cardinality({id \in MapKeys(m) : StartsWithBranch(id, sourceScaleId)}) + 1

\* the scale handleBranchingSubmit assembles after validation
AssembleBranch(m, sourceScaleId, g) ==
    LET branchCount == BranchCount(m, sourceScaleId)
        newScaleId == BranchId(sourceScaleId, branchCount)
        branch_index == branchCount - 1
        newPosition == editorNextBranchPosition(m, sourceScaleId, branch_index)
    IN MkBranch(newScaleId, g.scale_name, sourceScaleId, newPosition)

\* what a failed attempt does to the Map
OnBranchFailureInsert(m, sourceScaleId) ==
    MapSet(m, AssembleBranch(m, sourceScaleId, GptValid))
OnBranchFailure(m, sourceScaleId) == m

\* the finally block's assignment to isBranchingInProgress
ReleaseGuardOnSuccessOnly(outcome) == outcome # "inserted"
ReleaseGuard(outcome) == FALSE

\* handleBranchingSubmit after the await: the call of adaptCalls[i] either
\* throws (transport error) or returns g
AdaptSettles(i, threw, g) ==
    /\ UNCHANGED ops
    /\ i \in 1..Len(adaptCalls)
    /\ LET src == adaptCalls[i].sourceScaleId
           outcome == IF threw THEN "transport_failed"
                      ELSE IF ~validateGptScale(g).valid
                           THEN "validation_failed"
                           ELSE "inserted"
       IN /\ lastEvent' = outcome
          /\ isBranchingInProgress' = ReleaseGuard(outcome)
          /\ IF outcome = "inserted"
             THEN /\ scales' = renderAll(MapSet(scales,
                                  AssembleBranch(scales, src, g)))
                  /\ popupOpen' = FALSE
             ELSE /\ scales' = OnBranchFailure(scales, src)
                  /\ UNCHANGED popupOpen
    /\ adaptCalls' = RemoveAt(adaptCalls, i)
    /\ UNCHANGED <<activeScaleId, currentScreen, isProcessing, ingest,
                   branchingFromScaleId, removedIds, moves, cascade, adaptation>>

\* ------------------------------------------------------------------------
\* Delete (flow editor)
\* ------------------------------------------------------------------------
Prep(can, err, computed, toDelete) ==
    [canDelete |-> can, error |-> err, computed |-> computed,
     toDelete |-> toDelete, count |-> Cardinality(toDelete)]

\* FlowEditorController.prepareDelete; `computed` records whether
\* buildCascadeDeleteSet ran
prepareDeleteNoRootCheck(scaleId, m) ==
    IF scaleId = NullId THEN Prep(FALSE, "no_scale_id", FALSE, {})
    ELSE IF ~MapHas(m, scaleId) THEN Prep(FALSE, "scale_not_found", FALSE, {})
    ELSE Prep(TRUE, "none", TRUE, buildCascadeDeleteSet(m, scaleId))
prepareDelete(scaleId, m) ==
    IF scaleId = NullId THEN Prep(FALSE, "no_scale_id", FALSE, {})
    ELSE IF ~MapHas(m, scaleId) THEN Prep(FALSE, "scale_not_found", FALSE, {})
    ELSE IF MapGet(m, scaleId).is_root
         THEN Prep(FALSE, "root_protected", FALSE, {})
    ELSE Prep(TRUE, "none", TRUE, buildCascadeDeleteSet(m, scaleId))

\* CanvasStateOps.removeScales
removeScalesTargetOnly(m, scaleIds) ==
    MapDeleteAll(m, {id \in scaleIds : \A o \in scaleIds :
                                          Len(id.path) <= Len(o.path)})
removeScales(m, scaleIds) == MapDeleteAll(m, scaleIds)

\* CanvasStateOps.clearActiveScaleIfDeleted
clearActiveScaleIfDeleted(active, deletedIds) ==
    IF active # NullId /\ active \in deletedIds THEN NullId ELSE active

\* flowEditor.handleDeleteScale: prepareDelete, confirm(), closeBranchingPopup,
\* FlowEditorController.executeDelete, renderAll -- one synchronous handler
HandleDeleteScale(scaleId, confirmed) ==
    /\ ops < MaxOps
    /\ ops' = ops + 1
    /\ currentScreen = 3
    /\ scaleId \in MapKeys(scales)
    /\ LET prep == prepareDelete(scaleId, scales)
       IN /\ lastEvent' = IF ~prep.canDelete THEN prep.error
                          ELSE IF confirmed THEN "deleted" ELSE lastEvent
          /\ IF prep.canDelete /\ confirmed
             THEN /\ scales' = renderAll(removeScales(scales, prep.toDelete))
                  /\ activeScaleId' =
                        clearActiveScaleIfDeleted(activeScaleId, prep.toDelete)
                  /\ removedIds' = removedIds \cup
                                   (prep.toDelete \cap MapKeys(scales))
                  /\ popupOpen' = FALSE
             ELSE UNCHANGED <<scales, activeScaleId, removedIds, popupOpen>>
    /\ UNCHANGED <<currentScreen, isProcessing, ingest, isBranchingInProgress,
                   branchingFromScaleId, adaptCalls, moves, cascade, adaptation>>

\* ------------------------------------------------------------------------
\* Flow editor: the layout test helpers
\* ------------------------------------------------------------------------
\* the Map after testMoveParent's `scale.position.y += deltaY`
moveScaleWithChildren(m, scaleId, deltaY) ==
    [i \in 1..Len(m) |->
        IF m[i].scale_id = scaleId \/ m[i].parent_scale_id = scaleId
        THEN [m[i] EXCEPT !.position.y = @ + deltaY]
        ELSE m[i]]
moveScale(m, scaleId, deltaY) ==
    [m EXCEPT ![MapIndex(m, scaleId)].position.y = @ + deltaY]

\* flowEditor.testMoveParent(scaleId, deltaY)
TestMoveParent(scaleId, deltaY) ==
    /\ ops < MaxOps
    /\ ops' = ops + 1
    /\ moves < MaxMoves
    /\ scaleId \in MapKeys(scales)
    /\ scales' = renderAll(moveScale(scales, scaleId, deltaY))
    /\ moves' = moves + 1
    /\ UNCHANGED <<activeScaleId, currentScreen, isProcessing, ingest,
                   isBranchingInProgress, branchingFromScaleId, popupOpen,
                   adaptCalls, lastEvent, removedIds, cascade, adaptation>>

\* flowEditor.testReorderScales(): the Map is rebuilt in reversed order
TestReorderScales ==
    /\ ops < MaxOps
    /\ ops' = ops + 1
    /\ Len(scales) > 1
    /\ scales' = renderAll(Reverse(scales))
    /\ UNCHANGED <<activeScaleId, currentScreen, isProcessing, ingest,
                   isBranchingInProgress, branchingFromScaleId, popupOpen,
                   adaptCalls, lastEvent, removedIds, moves, cascade, adaptation>>

\* ------------------------------------------------------------------------
\* The program
\* ------------------------------------------------------------------------
Next ==
    \/ \E n \in 1..3 : ShowScreen(n)
    \/ \E n \in 2..3 : NavClick(n)
    \/ HandleLoadMock
    \/ \E isCSV \in BOOLEAN : HandleFiles(isCSV)
    \/ \E ok \in BOOLEAN, configured \in BOOLEAN : FileRead(ok, configured)
    \/ StructureFailed
    \/ \E r \in StructResults : StructureDone(r)
    \/ \E yes \in BOOLEAN, r \in StructResults : ConfirmDone(yes, r)
    \/ \E id \in MapKeys(scales) : OpenBranchingPopup(id)
    \/ CloseBranchingPopup
    \/ \E intent \in {"", "gen-z"} : HandleBranchingSubmit(intent)
    \/ \E i \in 1..Len(adaptCalls), threw \in BOOLEAN, g \in GptResults :
          AdaptSettles(i, threw, g)
    \/ \E id \in MapKeys(scales), c \in BOOLEAN : HandleDeleteScale(id, c)
    \/ \E id \in MapKeys(scales) : TestMoveParent(id, MoveDelta)
    \/ TestReorderScales

Spec == Init /\ [][Next]_vars

\* An adaptation call that is outstanding settles: fetch resolves or rejects,
\* and handleBranchingSubmit resumes in its try / catch / finally.
FairSpec ==
    Spec /\ WF_vars(\E i \in 1..Len(adaptCalls), threw \in BOOLEAN,
                        g \in GptResults : AdaptSettles(i, threw, g))

\* ------------------------------------------------------------------------
\* Graph harness: buildCascadeDeleteSet over arbitrary small collections
\* ------------------------------------------------------------------------
GraphNodes == 0..(MaxGraph - 1)
GraphId(k) == IF k = 0 THEN MkId("root", <<>>) ELSE MkId("node", <<k>>)

\* parent pointers of a forest over GraphNodes: node 0 is the root, every
\* other node points at a node of smaller number
GraphParents ==
    {p \in [GraphNodes \ {0} -> GraphNodes] :
        \A k \in GraphNodes \ {0} : p[k] < k}

RECURSIVE GraphDepth(_, _)
GraphDepth(p, k) == IF k = 0 THEN 0 ELSE 1 + GraphDepth(p, p[k])

GraphScale(p, k) ==
    IF k = 0
    THEN MkScale(GraphId(0), "root", NullId, TRUE, 0, Undefined,
                 Pos(RootX, RootY), FALSE)
    ELSE MkBranch(GraphId(k), "node", GraphId(p[k]),
                  [x |-> RootX + GraphDepth(p, k) * HORIZONTAL_STEP,
                   y |-> RootY + k * ROW_HEIGHT,
                   branch_index |-> k - 1, depth |-> GraphDepth(p, k)])

\* insertion orders: the root and any of the other nodes, in any order
GraphOrders ==
    {q \in UNION {[1..n -> GraphNodes] : n \in 1..MaxGraph} :
        /\ \A i, j \in DOMAIN q : i # j => q[i] # q[j]
        /\ \E i \in DOMAIN q : q[i] = 0}

GraphInit ==
    /\ \E p \in GraphParents, q \in GraphOrders :
          scales = [i \in DOMAIN q |-> GraphScale(p, q[i])]
    /\ activeScaleId = GraphId(0)
    /\ currentScreen = 3
    /\ isProcessing = FALSE
    /\ ingest = IngestIdle
    /\ isBranchingInProgress = FALSE
    /\ branchingFromScaleId = NullId
    /\ popupOpen = FALSE
    /\ adaptCalls = <<>>
    /\ lastEvent = "none"
    /\ removedIds = {}
    /\ moves = 0
    /\ ops = 0
    /\ cascade = NoQuery
    /\ adaptation = NoAdaptation

\* ScaleGraph.buildCascadeDeleteSet(scales, targetId) on the current Map
CascadeQuery(targetId) ==
    /\ targetId \in MapKeys(scales)
    /\ cascade' = [target |-> targetId,
                   ids |-> buildCascadeDeleteSet(scales, targetId)]
    /\ UNCHANGED <<scales, activeScaleId, currentScreen, isProcessing, ingest,
                   isBranchingInProgress, branchingFromScaleId, popupOpen,
                   adaptCalls, lastEvent, removedIds, moves, ops,
                   adaptation>>

\* testReorderScales' rebuild of the Map in reversed order
ReorderScales ==
    /\ Len(scales) > 1
    /\ scales' = renderAll(Reverse(scales))
    /\ UNCHANGED <<activeScaleId, currentScreen, isProcessing, ingest,
                   isBranchingInProgress, branchingFromScaleId, popupOpen,
                   adaptCalls, lastEvent, removedIds, moves, ops, cascade, adaptation>>

GraphNext ==
    \/ \E targetId \in MapKeys(scales) : CascadeQuery(targetId)
    \/ ReorderScales

GraphSpec == GraphInit /\ [][GraphNext]_vars

\* ------------------------------------------------------------------------
\* Graph queries (logic/scaleGraph.js) on forests, with known and unknown ids
\* ------------------------------------------------------------------------
\* ids of the scales of m whose parent_scale_id is parentId, in Map order
RECURSIVE getChildrenFrom(_, _, _)
getChildrenFrom(m, parentId, i) ==
    IF i > Len(m) THEN <<>>
    ELSE (IF m[i].parent_scale_id = parentId THEN <<m[i].scale_id>>
          ELSE <<>>) \o getChildrenFrom(m, parentId, i + 1)

\* ScaleGraph.getChildren(scales, parentId)
getChildren(m, parentId) == getChildrenFrom(m, parentId, 1)

\* the while loop of getDescendants on the queue that is left
RECURSIVE getDescendantsFrom(_, _)
getDescendantsFrom(m, queue) ==
    IF Len(queue) = 0 THEN <<>>
    ELSE LET children == getChildren(m, Head(queue))
         IN children \o getDescendantsFrom(m, Tail(queue) \o children)

\* ScaleGraph.getDescendants(scales, rootId)
getDescendants(m, rootId) == getDescendantsFrom(m, <<rootId>>)

\* ScaleGraph.countBranches(scales, parentId) without an idPrefix
countBranches(m, parentId) == Len(getChildren(m, parentId))

\* ScaleGraph.getSiblings(scales, scaleId)
getSiblings(m, scaleId) ==
    IF ~MapHas(m, scaleId) \/ MapGet(m, scaleId).parent_scale_id = NullId
    THEN <<>>
    ELSE SelectSeq(getChildren(m, MapGet(m, scaleId).parent_scale_id),
                   LAMBDA id : id # scaleId)

\* ScaleGraph.getParent(scales, scaleId); NoScale is null
getParent(m, scaleId) ==
    IF ~MapHas(m, scaleId) \/ MapGet(m, scaleId).parent_scale_id = NullId
    THEN NoScale
    ELSE IF MapHas(m, MapGet(m, scaleId).parent_scale_id)
         THEN MapGet(m, MapGet(m, scaleId).parent_scale_id)
         ELSE NoScale

\* an id that no scale of a forest has
UnknownId == MkId("no-such-scale", <<>>)

QueryInit == GraphInit

\* every query is called with id; none of them writes to the Map
GraphQuery(id) ==
    /\ adaptation' =
          [stage |-> "queried", id |-> id,
           children |-> getChildren(scales, id),
           descendants |-> getDescendants(scales, id),
           cascade_delete_set |-> buildCascadeDeleteSet(scales, id),
           siblings |-> getSiblings(scales, id),
           parent |-> getParent(scales, id),
           branch_count |-> countBranches(scales, id)]
    /\ UNCHANGED <<scales, activeScaleId, currentScreen, isProcessing, ingest,
                   isBranchingInProgress, branchingFromScaleId, popupOpen,
                   adaptCalls, lastEvent, removedIds, moves, ops, cascade>>

QueryNext ==
    \/ \E id \in MapKeys(scales) \cup {UnknownId} : GraphQuery(id)
    \/ ReorderScales

QuerySpec == QueryInit /\ [][QueryNext]_vars

\* ------------------------------------------------------------------------
\* Scale Store (state/scaleStore.js) with the Invariants module in DEV mode
\* ------------------------------------------------------------------------
\* A payload handed to addScale: `has` names the fields whose value has the
\* JS type the validators ask for (a non-empty string id, a string name, an
\* array of dimensions, a position with numeric x and y, a string parent
\* id, a numeric branch_index).
Payload(has, id, isRoot, parent, bidx, locked) ==
    [has |-> has, scale_id |-> id, scale_name |-> "Skala",
     parent_scale_id |-> parent, is_root |-> isRoot, depth |-> 0,
     branch_index |-> bidx, position |-> Pos(RootX, RootY),
     positionLocked |-> locked]

PayloadFields ==
    {"scale_id", "scale_name", "dimensions", "position", "parent_scale_id",
     "branch_index"}

\* every field there, one field missing or mistyped, or two of them
PayloadHas ==
    {PayloadFields} \cup {PayloadFields \ {f} : f \in PayloadFields}
       \cup {PayloadFields \ {"dimensions", "position"},
             PayloadFields \ {"scale_id", "dimensions"}}

\* root payloads as the app builds roots (no branch_index, not locked), and
\* non-root payloads with a good or a negative branch_index, locked or not
Payloads ==
    {Payload(has \ {"parent_scale_id", "branch_index"}, MockRootId, TRUE,
             NullId, Undefined, FALSE) : has \in PayloadHas}
    \cup
    {Payload(has, MockGenzId, FALSE, MockRootId, bidx, locked) :
        has \in PayloadHas, bidx \in {0, -2}, locked \in BOOLEAN}

\* a validator that does not look at dimensions
validateScaleAnyDimensions(scale) ==
    IF "scale_id" \notin scale.has THEN "Scale must have scale_id"
    ELSE IF "scale_name" \notin scale.has THEN "Scale must have scale_name"
    ELSE IF "position" \notin scale.has
         THEN "Scale must have position {x, y}"
    ELSE ""

\* Invariants.validateScale: the message of the first assert that fails,
\* "" when none does
validateScale(scale) ==
    IF "scale_id" \notin scale.has THEN "Scale must have scale_id"
    ELSE IF "scale_name" \notin scale.has THEN "Scale must have scale_name"
    ELSE IF "dimensions" \notin scale.has
         THEN "Scale must have dimensions array"
    ELSE IF "position" \notin scale.has
         THEN "Scale must have position {x, y}"
    ELSE ""

\* Invariants.validateBranchedScale
validateBranchedScale(scale) ==
    IF scale.is_root THEN ""
    ELSE IF "parent_scale_id" \notin scale.has
         THEN "Non-root scale must have parent_scale_id"
    ELSE IF ~("branch_index" \in scale.has /\ scale.branch_index >= 0)
         THEN "Branched scale must have non-negative branch_index"
    ELSE IF scale.positionLocked # TRUE
         THEN "Branched scale must have positionLocked=true"
    ELSE ""

\* the validation block of ScaleStore.addScale; strict is
\* `window.Invariants` being there with DEV on
addScaleValidation(scale, strict) ==
    IF ~strict THEN ""
    ELSE IF validateScale(scale) # "" THEN validateScale(scale)
    ELSE IF ~scale.is_root THEN validateBranchedScale(scale)
    ELSE ""

StoreVarsUnchanged ==
    UNCHANGED <<currentScreen, isProcessing, ingest, isBranchingInProgress,
                branchingFromScaleId, popupOpen, adaptCalls, removedIds,
                moves, ops, cascade, adaptation>>

StoreInit == Init

\* ScaleStore.addScale(scale): an assert that fails throws before the set
StoreAddScale(scale, strict) ==
    /\ LET thrown == addScaleValidation(scale, strict)
       IN IF thrown # ""
          THEN /\ lastEvent' = thrown
               /\ UNCHANGED scales
          ELSE /\ lastEvent' = "added"
               /\ scales' = MapSet(scales, scale)
    /\ UNCHANGED activeScaleId
    /\ StoreVarsUnchanged

\* a removal that clears the selection whether or not the id was there
StoreRemoveScaleClearsActive(scaleId) ==
    /\ scales' = MapDeleteAll(scales, {scaleId})
    /\ activeScaleId' = IF activeScaleId = scaleId
                        THEN NullId ELSE activeScaleId
    /\ lastEvent' = IF MapHas(scales, scaleId) THEN "removed" ELSE "not_removed"
    /\ StoreVarsUnchanged

\* ScaleStore.removeScale(scaleId)
StoreRemoveScale(scaleId) ==
    /\ scales' = MapDeleteAll(scales, {scaleId})
    /\ activeScaleId' = IF MapHas(scales, scaleId) /\ activeScaleId = scaleId
                        THEN NullId ELSE activeScaleId
    /\ lastEvent' = IF MapHas(scales, scaleId) THEN "removed" ELSE "not_removed"
    /\ StoreVarsUnchanged

\* ScaleStore.removeScalesCascade(scaleIds)
StoreRemoveScalesCascade(scaleIds) ==
    /\ scales' = MapDeleteAll(scales, scaleIds)
    /\ activeScaleId' = IF activeScaleId \in scaleIds \cap MapKeys(scales)
                        THEN NullId ELSE activeScaleId
    /\ lastEvent' = "removed_cascade"
    /\ StoreVarsUnchanged

\* the objects updateScale is called with
StoreUpdates == {[positionLocked |-> TRUE]}

\* Object.assign(scale, updates)
ObjectAssign(scale, updates) ==
    [f \in DOMAIN scale |->
        IF f \in DOMAIN updates THEN updates[f] ELSE scale[f]]

\* ScaleStore.updateScale(scaleId, updates)
StoreUpdateScale(scaleId, updates) ==
    /\ IF MapHas(scales, scaleId)
       THEN /\ scales' = [scales EXCEPT ![MapIndex(scales, scaleId)] =
                             ObjectAssign(@, updates)]
            /\ lastEvent' = "updated"
       ELSE /\ UNCHANGED scales
            /\ lastEvent' = "not_updated"
    /\ UNCHANGED activeScaleId
    /\ StoreVarsUnchanged

\* ScaleStore.clear()
StoreClear ==
    /\ scales' = <<>>
    /\ lastEvent' = "cleared"
    /\ UNCHANGED activeScaleId
    /\ StoreVarsUnchanged

StoreNext ==
    \/ \E scale \in Payloads, strict \in BOOLEAN : StoreAddScale(scale, strict)
    \/ \E scaleId \in {MockRootId, MockGenzId} : StoreRemoveScale(scaleId)
    \/ \E scaleIds \in SUBSET {MockRootId, MockGenzId} :
          StoreRemoveScalesCascade(scaleIds)
    \/ \E scaleId \in {MockRootId, MockGenzId}, updates \in StoreUpdates :
          StoreUpdateScale(scaleId, updates)
    \/ StoreClear

StoreSpec == StoreInit /\ [][StoreNext]_vars

\* ------------------------------------------------------------------------
\* Adaptation adapter: validateAdaptScaleResponse / validateBasic and
\* expandWithRubrics / expandDimensionsBasic, applied to bounded payloads
\* ------------------------------------------------------------------------
MaxDims == 2
MaxItems == 2
MaxGenerations == 2

\* JS values: a rubric that is undefined, a null array entry
NoRubric == <<"undefined">>
JsNull == [isNull |-> TRUE]
Truthy(rubric) == rubric # NoRubric

\* an item of the payload; text is "" when it is absent, empty or no string
AdaptedItem(text, rubric) ==
    [isNull |-> FALSE, text |-> text, current_rubric |-> rubric]
\* a dimension of the payload; name is "" when absent, empty or no string
AdaptedDim(name, itemsIsArray, items) ==
    [isNull |-> FALSE, name |-> name, itemsIsArray |-> itemsIsArray,
     items |-> items]
\* the payload; nameType is "string", "empty" (absent or '') or "number"
AdaptPayload(error, nameType, dimsIsArray, dims) ==
    [isNull |-> FALSE, error |-> error, scale_name_type |-> nameType,
     dimsIsArray |-> dimsIsArray, dimensions |-> dims]

GoodItem == AdaptedItem("t", NoRubric)
AdaptedItems ==
    {JsNull, AdaptedItem("", NoRubric), GoodItem, AdaptedItem("t", <<>>),
     AdaptedItem("t", <<"g">>)}
AdaptedItemLists ==
    {<<i>> : i \in AdaptedItems} \cup {<<GoodItem, i>> : i \in AdaptedItems}
GoodDim == AdaptedDim("D1", TRUE, <<GoodItem>>)
AdaptedDims ==
    {JsNull, AdaptedDim("D2", FALSE, <<>>), AdaptedDim("D2", TRUE, <<>>),
     AdaptedDim("", TRUE, <<GoodItem>>)}
      \cup {AdaptedDim("D2", TRUE, l) : l \in AdaptedItemLists}
AdaptedDimLists ==
    {<<d>> : d \in AdaptedDims} \cup {<<GoodDim, d>> : d \in AdaptedDims}
AdaptPayloads ==
    {JsNull,
     AdaptPayload("API Error 500", "empty", FALSE, <<>>),
     AdaptPayload("", "empty", TRUE, <<GoodDim>>),
     AdaptPayload("", "number", TRUE, <<GoodDim>>),
     AdaptPayload("", "string", FALSE, <<>>),
     AdaptPayload("", "string", TRUE, <<>>)}
      \cup {AdaptPayload("", "string", TRUE, l) : l \in AdaptedDimLists}

\* dimensions of a root scale: nd dimensions of ni items each, every item
\* with the same baseline rubric, which roots always carry as an array
SourceItem(id, rubric) ==
    [item_id |-> id, origin_item_id |-> id, text |-> "s",
     baseline_rubric |-> rubric, current_rubric |-> rubric,
     dimension |-> "S", rubric_source |-> "parent"]
SourceDims(nd, ni, rubric) ==
    [d \in 1..nd |->
        [name |-> "S",
         items |-> [j \in 1..ni |->
                      SourceItem(ToString((d - 1) * ni + j), rubric)]]]
RootDimensions ==
    {SourceDims(nd, ni, rubric) :
        nd \in 1..MaxDims, ni \in 1..MaxItems,
        rubric \in {<<>>, <<"b">>}}

\* results of a validator call
ValidationOk(warnings) ==
    [threw |-> FALSE, valid |-> TRUE, error |-> "", warnings |-> warnings]
ValidationError(error) ==
    [threw |-> FALSE, valid |-> FALSE, error |-> error, warnings |-> <<>>]
\* reading a property of null: TypeError
ValidationThrew ==
    [threw |-> TRUE, valid |-> FALSE, error |-> "TypeError",
     warnings |-> <<>>]

\* the item loop of validateAdaptScaleResponse from item j on
RECURSIVE validateAdaptItemsFrom(_, _)
validateAdaptItemsFrom(dim, j) ==
    IF j > Len(dim.items) THEN ValidationOk(<<>>)
    ELSE IF dim.items[j].isNull THEN ValidationThrew
    ELSE IF dim.items[j].text = ""
         THEN ValidationError("Item " \o ToString(j) \o " in \""
                                \o dim.name \o "\" missing text")
    ELSE validateAdaptItemsFrom(dim, j + 1)

\* the dimension loop of validateAdaptScaleResponse from dimension i on
RECURSIVE validateAdaptDimsFrom(_, _)
validateAdaptDimsFrom(dims, i) ==
    IF i > Len(dims) THEN ValidationOk(<<>>)
    ELSE IF dims[i].isNull THEN ValidationThrew
    ELSE IF dims[i].name = ""
         THEN ValidationError("Dimension " \o ToString(i) \o " missing name")
    ELSE IF ~dims[i].itemsIsArray \/ Len(dims[i].items) = 0
         THEN ValidationError("Dimension \"" \o dims[i].name
                                \o "\" has no items")
    ELSE IF validateAdaptItemsFrom(dims[i], 1) # ValidationOk(<<>>)
         THEN validateAdaptItemsFrom(dims[i], 1)
    ELSE validateAdaptDimsFrom(dims, i + 1)

Min(a, b) == IF a < b THEN a ELSE b

\* the structure comparison of validateAdaptScaleResponse: its warnings
RECURSIVE itemCountWarningsFrom(_, _, _)
itemCountWarningsFrom(dims, sourceDims, i) ==
    IF i > Min(Len(dims), Len(sourceDims)) THEN <<>>
    ELSE (IF Len(dims[i].items) # Len(sourceDims[i].items)
          THEN <<"Item count mismatch in dimension \"" \o dims[i].name
                   \o "\": expected=" \o ToString(Len(sourceDims[i].items))
                   \o ", got=" \o ToString(Len(dims[i].items))>>
          ELSE <<>>) \o itemCountWarningsFrom(dims, sourceDims, i + 1)

\* a comparison of the dimension counts alone
structureWarningsDimensionsOnly(dims, sourceDims) ==
    IF Len(dims) # Len(sourceDims)
    THEN <<"Dimension count mismatch: expected="
             \o ToString(Len(sourceDims)) \o ", got="
             \o ToString(Len(dims))>>
    ELSE <<>>

structureWarnings(dims, sourceDims) ==
    (IF Len(dims) # Len(sourceDims)
     THEN <<"Dimension count mismatch: expected="
              \o ToString(Len(sourceDims)) \o ", got="
              \o ToString(Len(dims))>>
     ELSE <<>>) \o itemCountWarningsFrom(dims, sourceDims, 1)

\* OpenAIScaleAdapter.validateAdaptScaleResponse(gptResult, sourceScale)
validateAdaptScaleResponse(gptResult, sourceDims) ==
    IF gptResult.isNull THEN ValidationError("No response")
    ELSE IF gptResult.error # "" THEN ValidationError(gptResult.error)
    ELSE IF gptResult.scale_name_type # "string"
         THEN ValidationError("Missing scale_name")
    ELSE IF ~gptResult.dimsIsArray \/ Len(gptResult.dimensions) = 0
         THEN ValidationError("Missing or empty dimensions")
    ELSE IF validateAdaptDimsFrom(gptResult.dimensions, 1)
              # ValidationOk(<<>>)
         THEN validateAdaptDimsFrom(gptResult.dimensions, 1)
    ELSE ValidationOk(structureWarnings(gptResult.dimensions, sourceDims))

\* GPTScaleService.validateBasic(gptResult)
validateBasic(gptResult) ==
    IF gptResult.isNull THEN ValidationError("No response")
    ELSE IF gptResult.scale_name_type = "empty"
         THEN ValidationError("Missing scale_name")
    ELSE IF ~gptResult.dimsIsArray
         THEN ValidationError("Missing dimensions")
    ELSE ValidationOk(<<>>)

\* number of items in the first d dimensions: itemCounter - 1 when the map
\* callback reaches dimension d + 1
RECURSIVE itemsBefore(_, _)
itemsBefore(gptDimensions, d) ==
    IF d = 0 THEN 0
    ELSE itemsBefore(gptDimensions, d - 1) + Len(gptDimensions[d].items)

\* either expander dereferences every dimension, its items array and every
\* item: a null entry or an items field that is no array is a TypeError
expandThrows(gptDimensions) ==
    \E d \in 1..Len(gptDimensions) :
        \/ gptDimensions[d].isNull
        \/ ~gptDimensions[d].itemsIsArray
        \/ \E j \in 1..Len(gptDimensions[d].items) :
              gptDimensions[d].items[j].isNull

\* the source item at dimension d, item j, if there is one
HasSourceItem(sourceDimensions, d, j) ==
    /\ d <= Len(sourceDimensions)
    /\ j <= Len(sourceDimensions[d].items)

\* a copy of the source item's current rubric instead
baselineOfSourceCurrent(sourceDimensions, d, j, fallback) ==
    IF HasSourceItem(sourceDimensions, d, j)
         /\ Truthy(sourceDimensions[d].items[j].current_rubric)
    THEN sourceDimensions[d].items[j].current_rubric
    ELSE fallback

\* sourceItem?.baseline_rubric || fallback
baselineOf(sourceDimensions, d, j, fallback) ==
    IF HasSourceItem(sourceDimensions, d, j)
         /\ Truthy(sourceDimensions[d].items[j].baseline_rubric)
    THEN sourceDimensions[d].items[j].baseline_rubric
    ELSE fallback

\* an item object whose origin is the source item's own origin
expandedItemRootOrigin(gptDimensions, scaleId, sourceDimensions, d, j, baseline, current) ==
    [item_id |-> scaleId \o "-item-"
                   \o ToString(itemsBefore(gptDimensions, d - 1) + j),
     origin_item_id |-> IF HasSourceItem(sourceDimensions, d, j)
                        THEN sourceDimensions[d].items[j].origin_item_id
                        ELSE "unknown",
     text |-> gptDimensions[d].items[j].text,
     baseline_rubric |-> baseline,
     current_rubric |-> current,
     dimension |-> gptDimensions[d].name,
     rubric_source |->
        IF Truthy(gptDimensions[d].items[j].current_rubric)
        THEN "gpt" ELSE "parent"]

\* the item object both expanders return, given the two rubrics
expandedItem(gptDimensions, scaleId, sourceDimensions, d, j, baseline, current) ==
    [item_id |-> scaleId \o "-item-"
                   \o ToString(itemsBefore(gptDimensions, d - 1) + j),
     origin_item_id |-> IF HasSourceItem(sourceDimensions, d, j)
                        THEN sourceDimensions[d].items[j].item_id
                        ELSE "unknown",
     text |-> gptDimensions[d].items[j].text,
     baseline_rubric |-> baseline,
     current_rubric |-> current,
     dimension |-> gptDimensions[d].name,
     rubric_source |->
        IF Truthy(gptDimensions[d].items[j].current_rubric)
        THEN "gpt" ELSE "parent"]

\* OpenAIScaleAdapter.expandWithRubrics on dimensions it does not throw on
expandWithRubrics(gptDimensions, scaleId, sourceDimensions) ==
    [d \in 1..Len(gptDimensions) |->
        [name |-> gptDimensions[d].name,
         items |->
            [j \in 1..Len(gptDimensions[d].items) |->
                LET item == gptDimensions[d].items[j]
                    baseline_rubric ==
                        baselineOf(sourceDimensions, d, j, <<"Mock Rubric">>)
                    current_rubric ==
                        IF Truthy(item.current_rubric)
                             /\ Len(item.current_rubric) > 0
                        THEN item.current_rubric
                        ELSE baseline_rubric
                IN expandedItem(gptDimensions, scaleId, sourceDimensions,
                                d, j, baseline_rubric, current_rubric)]]]

\* ScaleAssembler.expandDimensionsBasic on dimensions it does not throw on
expandDimensionsBasic(gptDimensions, scaleId, sourceDimensions) ==
    [d \in 1..Len(gptDimensions) |->
        [name |-> gptDimensions[d].name,
         items |->
            [j \in 1..Len(gptDimensions[d].items) |->
                LET item == gptDimensions[d].items[j]
                    baseline ==
                        baselineOf(sourceDimensions, d, j, <<"Placeholder">>)
                IN expandedItem(gptDimensions, scaleId, sourceDimensions,
                                d, j, baseline,
                                IF Truthy(item.current_rubric)
                                THEN item.current_rubric ELSE baseline)]]]

\* ScaleAssembler.assembleNewScale: the dimensions of the new scale, by the
\* adapter's expander when window.OpenAIScaleAdapter is there
assembleNewScale(adapterLoaded, gptResult, scaleId, sourceDimensions) ==
    IF expandThrows(gptResult.dimensions)
    THEN [threw |-> TRUE, dimensions |-> <<>>]
    ELSE [threw |-> FALSE,
          dimensions |->
             IF adapterLoaded
             THEN expandWithRubrics(gptResult.dimensions, scaleId,
                                    sourceDimensions)
             ELSE expandDimensionsBasic(gptResult.dimensions, scaleId,
                                        sourceDimensions)]

NoValidation == [threw |-> FALSE, valid |-> FALSE, error |-> "not called",
                 warnings |-> <<>>]
NoAssembly == [threw |-> FALSE, dimensions |-> <<>>]

\* the id of the g-th generation's first branch: root-branch-1-branch-1...
RECURSIVE generationScaleId(_)
generationScaleId(g) ==
    IF g = 0 THEN "root" ELSE generationScaleId(g - 1) \o "-branch-1"

\* dimensions of the scale being branched: the last of the lineage
SourceDimensions == adaptation.lineage[Len(adaptation.lineage)]

\* the scale being branched: the last one inserted
AdapterRootId == MkId("root", <<>>)
SourceScaleId == scales[Len(scales)].scale_id

AdapterVarsUnchanged ==
    UNCHANGED <<activeScaleId, currentScreen, isProcessing, ingest,
                isBranchingInProgress, branchingFromScaleId, popupOpen,
                adaptCalls, lastEvent, removedIds, moves, ops, cascade>>

\* a root scale is in place and the service has answered an adaptation
\* request for it
AdapterInit ==
    /\ scales = <<MkScale(AdapterRootId, "root", NullId, TRUE, 0, Undefined,
                          Pos(RootX, RootY), FALSE)>>
    /\ activeScaleId = AdapterRootId
    /\ currentScreen = 3
    /\ isProcessing = FALSE
    /\ ingest = IngestIdle
    /\ isBranchingInProgress = FALSE
    /\ branchingFromScaleId = NullId
    /\ popupOpen = FALSE
    /\ adaptCalls = <<>>
    /\ lastEvent = "none"
    /\ removedIds = {}
    /\ moves = 0
    /\ ops = 0
    /\ cascade = NoQuery
    /\ \E loaded \in BOOLEAN, root \in RootDimensions, g \in AdaptPayloads :
          adaptation = [stage |-> "received", adapterLoaded |-> loaded,
                        lineage |-> <<root>>, gpt |-> g,
                        validation |-> NoValidation,
                        assembled |-> NoAssembly]

\* GPTScaleService.adaptScale: validation of the response
AdapterValidate ==
    /\ adaptation.stage = "received"
    /\ adaptation' =
          [adaptation EXCEPT
             !.stage = "validated",
             !.validation =
                IF adaptation.adapterLoaded
                THEN validateAdaptScaleResponse(adaptation.gpt,
                                                SourceDimensions)
                ELSE validateBasic(adaptation.gpt)]
    /\ UNCHANGED scales
    /\ AdapterVarsUnchanged

\* a response that passed validation is expanded, assembled into a scale
\* and the scale is inserted; an expander that throws leaves the Map alone
AdapterAssemble ==
    /\ adaptation.stage = "validated"
    /\ ~adaptation.validation.threw
    /\ adaptation.validation.valid
    /\ LET newScale ==
              assembleNewScale(adaptation.adapterLoaded, adaptation.gpt,
                               generationScaleId(Len(adaptation.lineage)),
                               SourceDimensions)
       IN /\ adaptation' = [adaptation EXCEPT !.stage = "assembled",
                                               !.assembled = newScale]
          /\ scales' =
                IF newScale.threw THEN scales
                ELSE renderAll(MapSet(scales,
                        AssembleBranch(scales, SourceScaleId,
                                       [scale_name |-> "Adaptasi"])))
    /\ AdapterVarsUnchanged

\* the assembled scale is branched in turn: the service answers a request
\* made for it
AdapterBranchAgain(g) ==
    /\ adaptation.stage = "assembled"
    /\ ~adaptation.assembled.threw
    /\ Len(adaptation.lineage) < MaxGenerations
    /\ adaptation' =
          [adaptation EXCEPT
             !.stage = "received",
             !.lineage = Append(@, adaptation.assembled.dimensions),
             !.gpt = g,
             !.validation = NoValidation,
             !.assembled = NoAssembly]
    /\ UNCHANGED scales
    /\ AdapterVarsUnchanged

AdapterNext ==
    \/ AdapterValidate
    \/ AdapterAssemble
    \/ \E g \in AdaptPayloads : AdapterBranchAgain(g)

AdapterSpec == AdapterInit /\ [][AdapterNext]_vars

\* ------------------------------------------------------------------------
\* Import of a structured CSV: the dimensions buildScaleFromGPT builds
\* ------------------------------------------------------------------------
\* an item of the structuring result; item_id is "" when the service sent
\* none, baseline_rubric is NoRubric when it sent none
StructuredItem(id, rubric) ==
    [item_id |-> id, text |-> "s", baseline_rubric |-> rubric]
StructuredItems(d, j) ==
    {StructuredItem(id, rubric) :
        id \in {"", "q" \o ToString(d) \o ToString(j)},
        rubric \in {NoRubric, <<"b">>}}
StructuredItemLists(d) ==
    UNION {{l \in [1..n -> UNION {StructuredItems(d, j) : j \in 1..n}] :
               \A j \in 1..n : l[j] \in StructuredItems(d, j)} :
           n \in 1..MaxItems}
StructuredDimensions ==
    UNION {{ds \in [1..n -> [name : {"S"},
                             items : UNION {StructuredItemLists(d) :
                                              d \in 1..n}]] :
               \A d \in 1..n : ds[d].items \in StructuredItemLists(d)} :
           n \in 1..MaxDims}

\* item.item_id || `imported-${i + 1}`, i the index within the dimension
importedItemId(item, i) ==
    IF item.item_id # "" THEN item.item_id ELSE "imported-" \o ToString(i)

\* the dimensions of the scale buildScaleFromGPT returns
buildDimensionsFromGPT(gptDimensions) ==
    [d \in 1..Len(gptDimensions) |->
        [name |-> gptDimensions[d].name,
         items |->
            [i \in 1..Len(gptDimensions[d].items) |->
                LET item == gptDimensions[d].items[i]
                    baseline == IF Truthy(item.baseline_rubric)
                                THEN item.baseline_rubric ELSE <<>>
                IN [item_id |-> importedItemId(item, i),
                    origin_item_id |-> importedItemId(item, i),
                    text |-> item.text,
                    baseline_rubric |-> baseline,
                    current_rubric |-> baseline,
                    dimension |-> gptDimensions[d].name]]]]

\* the structuring service has answered with dimensions
ImportInit ==
    /\ scales = <<>>
    /\ activeScaleId = MockRootId
    /\ currentScreen = 1
    /\ isProcessing = TRUE
    /\ ingest = [IngestIdle EXCEPT !.structuring = 1]
    /\ isBranchingInProgress = FALSE
    /\ branchingFromScaleId = NullId
    /\ popupOpen = FALSE
    /\ adaptCalls = <<>>
    /\ lastEvent = "none"
    /\ removedIds = {}
    /\ moves = 0
    /\ ops = 0
    /\ cascade = NoQuery
    /\ \E ds \in StructuredDimensions :
          adaptation = [stage |-> "structured", structured |-> ds,
                        dimensions |-> <<>>]

\* handleFiles from buildScaleFromGPT on: the root is built and stored
ImportBuild ==
    /\ adaptation.stage = "structured"
    /\ adaptation' =
          [adaptation EXCEPT
             !.stage = "imported",
             !.dimensions = buildDimensionsFromGPT(adaptation.structured)]
    /\ UNCHANGED <<ops, isBranchingInProgress, branchingFromScaleId,
                   popupOpen, adaptCalls, moves, cascade>>
    /\ scales' = MapSet(<<>>, buildScaleFromGPT)
    /\ removedIds' = removedIds \cup MapKeys(scales)
    /\ activeScaleId' = ImportedId
    /\ currentScreen' = 2
    /\ isProcessing' = FALSE
    /\ ingest' = IngestMove("structuring", "done")
    /\ lastEvent' = "imported"

ImportNext == ImportBuild

ImportSpec == ImportInit /\ [][ImportNext]_vars

\* ------------------------------------------------------------------------
\* Branch positioning applied to bounded parents and branch indices
\* ------------------------------------------------------------------------
MaxBranchIndex == 5
MaxParentDepth == 2

LayoutParentId == MkId("parent", <<>>)

\* parents: roots and branches at the places the layout puts them, and one
\* off the grid
LayoutParents ==
    {MkScale(LayoutParentId, "parent", NullId, d = 0, d, Undefined,
             Pos(px, py), d # 0) :
        d \in 0..MaxParentDepth,
        px \in {RootX, RootX + HORIZONTAL_STEP},
        py \in {RootY, RootY - ROW_HEIGHT, RootY + ROW_HEIGHT, 0}}

\* a position is asked for branch i of the parent in the Map (or of a
\* parent that is not there)
LayoutInit ==
    /\ \E m \in {<<>>} \cup {<<parentScale>> : parentScale \in LayoutParents} :
          scales = m
    /\ activeScaleId = LayoutParentId
    /\ currentScreen = 3
    /\ isProcessing = FALSE
    /\ ingest = IngestIdle
    /\ isBranchingInProgress = FALSE
    /\ branchingFromScaleId = NullId
    /\ popupOpen = FALSE
    /\ adaptCalls = <<>>
    /\ lastEvent = "none"
    /\ removedIds = {}
    /\ moves = 0
    /\ ops = 0
    /\ cascade = NoQuery
    /\ \E i \in 0..MaxBranchIndex :
          adaptation = [stage |-> "asked", branch_index |-> i,
                        newPosition |-> NoPosition]

\* flowEditor.getNextBranchPosition(sourceScaleId, branch_index)
LayoutCompute ==
    /\ adaptation.stage = "asked"
    /\ adaptation' =
          [adaptation EXCEPT
             !.stage = "computed",
             !.newPosition =
                editorNextBranchPosition(scales, LayoutParentId,
                                         adaptation.branch_index)]
    /\ UNCHANGED <<scales, activeScaleId, currentScreen, isProcessing, ingest,
                   isBranchingInProgress, branchingFromScaleId, popupOpen,
                   adaptCalls, lastEvent, removedIds, moves, ops, cascade>>

LayoutNext == LayoutCompute

LayoutSpec == LayoutInit /\ [][LayoutNext]_vars

\* ------------------------------------------------------------------------
\* Item text editing in the flow editor, next to a branching call
\* ------------------------------------------------------------------------
MaxEdits == 2

\* the string a scale id stands for
RECURSIVE IdString(_)
IdString(id) ==
    IF id.path = <<>> THEN id.root
    ELSE IdString(MkId(id.root, SubSeq(id.path, 1, Len(id.path) - 1)))
            \o "-branch-" \o ToString(id.path[Len(id.path)])

\* a scale object together with its dimensions array
WithDimensions(scale, dimensions) ==
    [f \in DOMAIN scale \cup {"dimensions"} |->
        IF f = "dimensions" THEN dimensions ELSE scale[f]]

\* structuring results of MaxDims dimensions with one item each
EditStructured ==
    {ds \in StructuredDimensions :
        /\ Len(ds) = MaxDims
        /\ \A d \in 1..Len(ds) :
              /\ Len(ds[d].items) = 1
              /\ ds[d].items[1].baseline_rubric = <<"b">>}

\* what OpenAIAPI.adaptScale resolves to: a well-formed scale or an error
EditGpt(error, name) ==
    [error |-> error, scale_name |-> name, dimensions |-> <<GoodDim>>]
EditGptResults == {EditGpt("", "Adaptasi"), EditGpt("API Error 500", "")}

\* flowEditor.activeEditItem: the item box under edit, with the scale id and
\* item id its data attributes carry; null when no edit is open
NoEditItem == [scaleId |-> NullId, itemId |-> "", d |-> 0, j |-> 0]
ItemAt(m, scaleId, d, j) == MapGet(m, scaleId).dimensions[d].items[j]
ItemBox(m, scaleId, d, j) ==
    [scaleId |-> scaleId, itemId |-> ItemAt(m, scaleId, d, j).item_id,
     d |-> d, j |-> j]

\* the inner loop of confirmOrRevertEdit: the first item with the id, at
\* which it breaks; 0 when the dimension has none
firstItemWithId(items, itemId) ==
    IF \E i \in 1..Len(items) : items[i].item_id = itemId
    THEN CHOOSE i \in 1..Len(items) :
            /\ items[i].item_id = itemId
            /\ \A k \in 1..(i - 1) : items[k].item_id # itemId
    ELSE 0

\* the two loops of confirmOrRevertEdit over scale.dimensions
setItemText(dimensions, itemId, newText) ==
    [d \in 1..Len(dimensions) |->
        [dimensions[d] EXCEPT !.items =
            [i \in 1..Len(dimensions[d].items) |->
                IF i = firstItemWithId(dimensions[d].items, itemId)
                THEN [dimensions[d].items[i] EXCEPT !.text = newText]
                ELSE dimensions[d].items[i]]]]

\* flowEditor.confirmOrRevertEdit: the Map after it, newText being the
\* trimmed content of the item box
confirmOrRevertEdit(m, edit, backup, newText) ==
    IF newText # backup /\ newText # "" /\ MapHas(m, edit.scaleId)
    THEN [m EXCEPT ![MapIndex(m, edit.scaleId)] =
             [@ EXCEPT !.dimensions = setItemText(@, edit.itemId, newText)]]
    ELSE m

\* what the user can have typed into the box by the time the edit ends
EditTyped == {"", "e", adaptation.editBackupText}

EditVarsUnchanged ==
    UNCHANGED <<activeScaleId, currentScreen, isProcessing, ingest,
                isBranchingInProgress, branchingFromScaleId, popupOpen,
                adaptCalls, lastEvent, removedIds, moves, ops, cascade>>

\* the scales whose items an edit changed while a call was outstanding
editedDuringCall(m, edit) ==
    IF isBranchingInProgress /\ m # scales
    THEN adaptation.editedScales \cup {edit.scaleId}
    ELSE adaptation.editedScales

\* an imported root is on the canvas of the flow editor
EditInit ==
    /\ \E ds \in EditStructured :
          scales = <<WithDimensions(buildScaleFromGPT,
                                    buildDimensionsFromGPT(ds))>>
    /\ activeScaleId = ImportedId
    /\ currentScreen = 3
    /\ isProcessing = FALSE
    /\ ingest = IngestIdle
    /\ isBranchingInProgress = FALSE
    /\ branchingFromScaleId = NullId
    /\ popupOpen = FALSE
    /\ adaptCalls = <<>>
    /\ lastEvent = "none"
    /\ removedIds = {}
    /\ moves = 0
    /\ ops = 0
    /\ cascade = NoQuery
    /\ adaptation = [stage |-> "edit", activeEditItem |-> NoEditItem,
                     editBackupText |-> "", edits |-> 0,
                     editedScales |-> {}]

\* the document click handler on an item of a box in edit mode: an edit open
\* on another item is confirmed first, then startEditItem opens this one
EditClickItem(scaleId, d, j, newText) ==
    /\ adaptation.edits < MaxEdits
    /\ MapHas(scales, scaleId)
    /\ d \in 1..Len(MapGet(scales, scaleId).dimensions)
    /\ j \in 1..Len(MapGet(scales, scaleId).dimensions[d].items)
    /\ LET active == adaptation.activeEditItem
           confirmed == IF active # NoEditItem
                        THEN confirmOrRevertEdit(scales, active,
                                adaptation.editBackupText, newText)
                        ELSE scales
       IN /\ ItemBox(scales, scaleId, d, j) # active
          /\ scales' = confirmed
          /\ adaptation' =
                [adaptation EXCEPT
                   !.activeEditItem = ItemBox(scales, scaleId, d, j),
                   !.editBackupText = ItemAt(confirmed, scaleId, d, j).text,
                   !.edits = @ + 1,
                   !.editedScales = editedDuringCall(confirmed, active)]
    /\ EditVarsUnchanged

\* Enter in the item box, a click outside it, or leaving edit mode
EditConfirm(newText) ==
    /\ adaptation.activeEditItem # NoEditItem
    /\ LET confirmed == confirmOrRevertEdit(scales, adaptation.activeEditItem,
                            adaptation.editBackupText, newText)
       IN /\ scales' = confirmed
          /\ adaptation' =
                [adaptation EXCEPT
                   !.activeEditItem = NoEditItem,
                   !.editBackupText = "",
                   !.editedScales =
                      editedDuringCall(confirmed, adaptation.activeEditItem)]
    /\ EditVarsUnchanged

\* Escape in the item box: cancelActiveEdit
EditCancel ==
    /\ adaptation.activeEditItem # NoEditItem
    /\ adaptation' = [adaptation EXCEPT !.activeEditItem = NoEditItem,
                                        !.editBackupText = ""]
    /\ UNCHANGED scales
    /\ EditVarsUnchanged

\* handleBranchingSubmit after the await, the new scale with the dimensions
\* expandWithMockRubrics gives it
EditAdaptSettles(i, threw, g) ==
    /\ i \in 1..Len(adaptCalls)
    /\ LET src == adaptCalls[i].sourceScaleId
           outcome == IF threw THEN "transport_failed"
                      ELSE IF ~validateGptScale(g).valid
                           THEN "validation_failed"
                           ELSE "inserted"
           branch == AssembleBranch(scales, src, g)
           newScale ==
              WithDimensions(branch,
                 expandWithRubrics(g.dimensions, IdString(branch.scale_id),
                                   MapGet(scales, src).dimensions))
       IN /\ lastEvent' = outcome
          /\ isBranchingInProgress' = ReleaseGuard(outcome)
          /\ IF outcome = "inserted"
             THEN /\ scales' = renderAll(MapSet(scales, newScale))
                  /\ popupOpen' = FALSE
             ELSE /\ scales' = OnBranchFailure(scales, src)
                  /\ UNCHANGED popupOpen
    /\ adaptCalls' = RemoveAt(adaptCalls, i)
    /\ adaptation' = [adaptation EXCEPT !.editedScales = {}]
    /\ UNCHANGED <<activeScaleId, currentScreen, isProcessing, ingest,
                   branchingFromScaleId, removedIds, moves, ops, cascade>>

\* handleDeleteScale, confirmed, of a scale no outstanding call branches from
EditDelete(scaleId) ==
    /\ \A i \in 1..Len(adaptCalls) :
          adaptCalls[i].sourceScaleId
             \notin buildCascadeDeleteSet(scales, scaleId)
    /\ HandleDeleteScale(scaleId, TRUE)

EditNext ==
    \/ \E id \in MapKeys(scales) : OpenBranchingPopup(id)
    \/ HandleBranchingSubmit("gen-z")
    \/ \E i \in 1..Len(adaptCalls), threw \in BOOLEAN, g \in EditGptResults :
          EditAdaptSettles(i, threw, g)
    \/ \E id \in MapKeys(scales) : EditDelete(id)
    \/ \E id \in MapKeys(scales), d \in 1..MaxDims, j \in 1..MaxItems,
          newText \in EditTyped : EditClickItem(id, d, j, newText)
    \/ \E newText \in EditTyped : EditConfirm(newText)
    \/ EditCancel

EditSpec == EditInit /\ [][EditNext]_vars

\* ------------------------------------------------------------------------
\* The upload zone: the four ways into handleFiles
\* ------------------------------------------------------------------------
MaxPipelines == 2

\* the upload screen as init() leaves it; the file picker is closed
UploadInit ==
    /\ scales = <<>>
    /\ activeScaleId = MockRootId
    /\ currentScreen = 1
    /\ isProcessing = FALSE
    /\ ingest = IngestIdle
    /\ isBranchingInProgress = FALSE
    /\ branchingFromScaleId = NullId
    /\ popupOpen = FALSE
    /\ adaptCalls = <<>>
    /\ lastEvent = "none"
    /\ removedIds = {}
    /\ moves = 0
    /\ ops = 0
    /\ cascade = NoQuery
    /\ adaptation = [stage |-> "upload", pickerOpen |-> FALSE]

\* what neither an entry point nor handleFiles up to its first await touches
UploadVarsUnchanged ==
    UNCHANGED <<scales, activeScaleId, currentScreen, isBranchingInProgress,
                branchingFromScaleId, popupOpen, adaptCalls, removedIds,
                moves, cascade>>

\* handleFiles up to `await readFileAsText(file)`
startHandleFiles(isCSV) ==
    IF ~isCSV
    THEN /\ lastEvent' = "unsupported_format"
         /\ UNCHANGED <<isProcessing, ingest>>
    ELSE /\ isProcessing' = TRUE
         /\ ingest' = [ingest EXCEPT !.reading = @ + 1]
         /\ UNCHANGED lastEvent

\* elements.fileInput.click() unless state.isProcessing
openPickerUnlessProcessing ==
    IF ~isProcessing
    THEN /\ adaptation' = [adaptation EXCEPT !.pickerOpen = TRUE]
         /\ lastEvent' = "picker_opened"
    ELSE /\ UNCHANGED adaptation
         /\ lastEvent' = "rejected_processing"

\* handleUploadClick on the zone (not on the mock data button)
UploadClick ==
    /\ ops < MaxOps
    /\ ops' = ops + 1
    /\ currentScreen = 1
    /\ ~adaptation.pickerOpen
    /\ openPickerUnlessProcessing
    /\ UNCHANGED <<isProcessing, ingest>>
    /\ UploadVarsUnchanged

\* handleUploadKeydown: Enter and space open the picker, other keys nothing
UploadKeydown(key) ==
    /\ ops < MaxOps
    /\ ops' = ops + 1
    /\ currentScreen = 1
    /\ ~adaptation.pickerOpen
    /\ IF key \in {"Enter", " "}
       THEN openPickerUnlessProcessing
       ELSE UNCHANGED <<adaptation, lastEvent>>
    /\ UNCHANGED <<isProcessing, ingest>>
    /\ UploadVarsUnchanged

\* the picker's change event: handleFileSelect -> handleFiles
UploadFileSelect(isCSV) ==
    /\ ops < MaxOps
    /\ ops' = ops + 1
    /\ adaptation.pickerOpen
    /\ IngestCount < MaxPipelines
    /\ adaptation' = [adaptation EXCEPT !.pickerOpen = FALSE]
    /\ startHandleFiles(isCSV)
    /\ UploadVarsUnchanged

\* the picker is dismissed without a file: no change event
UploadPickerCancel ==
    /\ ops < MaxOps
    /\ ops' = ops + 1
    /\ adaptation.pickerOpen
    /\ adaptation' = [adaptation EXCEPT !.pickerOpen = FALSE]
    /\ UNCHANGED <<isProcessing, ingest, lastEvent>>
    /\ UploadVarsUnchanged

\* a file dropped on the zone: handleDrop -> handleFiles
UploadDrop(isCSV) ==
    /\ ops < MaxOps
    /\ ops' = ops + 1
    /\ currentScreen = 1
    /\ ~adaptation.pickerOpen
    /\ IngestCount < MaxPipelines
    /\ startHandleFiles(isCSV)
    /\ UNCHANGED adaptation
    /\ UploadVarsUnchanged

UploadNext ==
    \/ UploadClick
    \/ \E key \in {"Enter", " ", "a"} : UploadKeydown(key)
    \/ \E isCSV \in BOOLEAN : UploadFileSelect(isCSV)
    \/ UploadPickerCancel
    \/ \E isCSV \in BOOLEAN : UploadDrop(isCSV)
    \/ ShowScreen(1)
    \/ \E ok \in BOOLEAN, configured \in BOOLEAN : FileRead(ok, configured)
    \/ StructureFailed
    \/ \E r \in StructResults : StructureDone(r)
    \/ \E yes \in BOOLEAN, r \in StructResults : ConfirmDone(yes, r)

UploadSpec == UploadInit /\ [][UploadNext]_vars

\* ------------------------------------------------------------------------
\* getDescendants, one iteration of its while loop per step, on a Map whose
\* parent references updateScale may have rewritten
\* ------------------------------------------------------------------------
\* the first entries of the descendants array that are kept; the loop runs
\* on past them
MaxTraversal == 5

TraversalInit == GraphInit

\* ScaleStore.updateScale(scaleId, { parent_scale_id: parentId }), once
TraversalReparent(scaleId, parentId) ==
    /\ lastEvent = "none"
    /\ adaptation = NoAdaptation
    /\ StoreUpdateScale(scaleId, [parent_scale_id |-> parentId])

\* getDescendants(scales, rootId) up to its loop; buildCascadeDeleteSet is
\* called on the same Map and has returned
TraversalStart(rootId) ==
    /\ adaptation = NoAdaptation
    /\ rootId \in MapKeys(scales)
    /\ adaptation' = [stage |-> "running", rootId |-> rootId,
                      queue |-> <<rootId>>, descendants |-> <<>>,
                      iterations |-> 0,
                      cascade_delete_set |->
                         buildCascadeDeleteSet(scales, rootId)]
    /\ UNCHANGED <<scales, activeScaleId, currentScreen, isProcessing, ingest,
                   isBranchingInProgress, branchingFromScaleId, popupOpen,
                   adaptCalls, lastEvent, removedIds, moves, ops, cascade>>

\* one test of `queue.length > 0`: the body of the loop, or the return.
\* The queue is kept whole; of the descendants array the first MaxTraversal
\* entries are kept, and iterations is the number of iterations modulo 2.
TraversalStep ==
    /\ adaptation.stage = "running"
    /\ IF Len(adaptation.queue) = 0
       THEN adaptation' = [adaptation EXCEPT !.stage = "returned"]
       ELSE LET children == getChildren(scales, Head(adaptation.queue))
                all == adaptation.descendants \o children
            IN adaptation' =
                  [adaptation EXCEPT
                     !.queue = Tail(@) \o children,
                     !.descendants =
                        SubSeq(all, 1, Min(Len(all), MaxTraversal)),
                     !.iterations = (@ + 1) % 2]
    /\ UNCHANGED <<scales, activeScaleId, currentScreen, isProcessing, ingest,
                   isBranchingInProgress, branchingFromScaleId, popupOpen,
                   adaptCalls, lastEvent, removedIds, moves, ops, cascade>>

TraversalNext ==
    \/ \E scaleId \in MapKeys(scales), parentId \in MapKeys(scales) :
          TraversalReparent(scaleId, parentId)
    \/ \E rootId \in MapKeys(scales) : TraversalStart(rootId)
    \/ TraversalStep

\* a loop that is running takes its next iteration
TraversalSpec ==
    TraversalInit /\ [][TraversalNext]_vars /\ WF_vars(TraversalStep)

\* ------------------------------------------------------------------------
\* OpenAIAPI.fetchWithRetry: one step per await
\* ------------------------------------------------------------------------
maxRetries == 3

ErrorType ==
    {"OFFLINE", "TIMEOUT", "RATE_LIMIT", "SERVER_ERROR", "NETWORK_ERROR",
     "API_ERROR"}

\* how one fetch can settle: a response with its status and what
\* response.json() gives ("object", "null" for the JSON text null, "invalid"
\* for a body that is no JSON), an abort by the timeout, a network failure
FetchResponse(status, body) ==
    [kind |-> "response", status |-> status, body |-> body]
FetchOutcomes ==
    {FetchResponse(200, "object"), FetchResponse(429, "object"),
     FetchResponse(500, "object"), FetchResponse(400, "object"),
     FetchResponse(400, "null"), FetchResponse(400, "invalid"),
     [kind |-> "abort", status |-> 0, body |-> "none"],
     [kind |-> "network", status |-> 0, body |-> "none"]}

\* a retry test that lets the last attempt retry too
mayRetryOnLastAttempt(attempt) == attempt < maxRetries

\* attempt < config.maxRetries - 1
mayRetry(attempt) == attempt < maxRetries - 1

FetchThrow(type) == [next |-> "throw", type |-> type]
FetchRetry == [next |-> "retry", type |-> "none"]
FetchReturn == [next |-> "return", type |-> "none"]

\* the catch block for an error that carries no type
catchUntyped(attempt, name) ==
    IF name = "AbortError"
    THEN IF mayRetry(attempt) THEN FetchRetry ELSE FetchThrow("TIMEOUT")
    ELSE IF mayRetry(attempt) THEN FetchRetry
         ELSE FetchThrow("NETWORK_ERROR")

\* the body of the for loop after `await fetch(...)` has settled
afterFetch(attempt, outcome) ==
    IF outcome.kind = "abort" THEN catchUntyped(attempt, "AbortError")
    ELSE IF outcome.kind = "network" THEN catchUntyped(attempt, "TypeError")
    ELSE IF outcome.status = 429 THEN FetchThrow("RATE_LIMIT")
    ELSE IF outcome.status >= 500
         THEN IF mayRetry(attempt) THEN FetchRetry
              ELSE FetchThrow("SERVER_ERROR")
    ELSE IF ~(outcome.status >= 200 /\ outcome.status <= 299)
         THEN IF outcome.body = "null"
              THEN catchUntyped(attempt, "TypeError")
              ELSE FetchThrow("API_ERROR")
    ELSE FetchReturn

FetchVarsUnchanged ==
    UNCHANGED <<scales, activeScaleId, currentScreen, isProcessing, ingest,
                isBranchingInProgress, branchingFromScaleId, popupOpen,
                adaptCalls, lastEvent, removedIds, moves, ops, cascade>>

\* no call has been made
FetchInit ==
    /\ scales = <<>>
    /\ activeScaleId = MockRootId
    /\ currentScreen = 1
    /\ isProcessing = FALSE
    /\ ingest = IngestIdle
    /\ isBranchingInProgress = FALSE
    /\ branchingFromScaleId = NullId
    /\ popupOpen = FALSE
    /\ adaptCalls = <<>>
    /\ lastEvent = "none"
    /\ removedIds = {}
    /\ moves = 0
    /\ ops = 0
    /\ cascade = NoQuery
    /\ adaptation = [stage |-> "idle", attempt |-> 0, requests |-> 0,
                     settled |-> <<>>, type |-> "none"]

\* fetchWithRetry is called: the navigator.onLine test, then the first
\* iteration up to `await fetch`
FetchCall(onLine) ==
    /\ adaptation.stage = "idle"
    /\ adaptation' =
          IF ~onLine
          THEN [adaptation EXCEPT !.stage = "thrown", !.type = "OFFLINE"]
          ELSE IF 0 < maxRetries
               THEN [adaptation EXCEPT !.stage = "fetching", !.requests = 1]
               ELSE [adaptation EXCEPT !.stage = "completed_undefined"]
    /\ FetchVarsUnchanged

\* `await fetch` settles and the iteration runs to its return, throw, or
\* `await sleep`
FetchSettles(outcome) ==
    /\ adaptation.stage = "fetching"
    /\ LET r == afterFetch(adaptation.attempt, outcome)
       IN adaptation' =
             [adaptation EXCEPT
                !.settled = Append(@, outcome),
                !.type = r.type,
                !.stage = IF r.next = "retry" THEN "sleeping"
                          ELSE IF r.next = "throw" THEN "thrown"
                          ELSE "returned"]
    /\ FetchVarsUnchanged

\* `await sleep` ends: continue, attempt++, the loop test, the next fetch
FetchSleepDone ==
    /\ adaptation.stage = "sleeping"
    /\ adaptation' =
          IF adaptation.attempt + 1 < maxRetries
          THEN [adaptation EXCEPT !.attempt = @ + 1,
                                  !.requests = @ + 1,
                                  !.stage = "fetching"]
          ELSE [adaptation EXCEPT !.attempt = @ + 1,
                                  !.stage = "completed_undefined"]
    /\ FetchVarsUnchanged

FetchNext ==
    \/ \E onLine \in BOOLEAN : FetchCall(onLine)
    \/ \E outcome \in FetchOutcomes : FetchSettles(outcome)
    \/ FetchSleepDone

\* every fetch settles (the timeout aborts it at the latest) and every sleep
\* timer fires
FetchSpec ==
    /\ FetchInit /\ [][FetchNext]_vars
    /\ WF_vars(\E outcome \in FetchOutcomes : FetchSettles(outcome))
    /\ WF_vars(FetchSleepDone)


\* ------------------------------------------------------------------------
\* Properties of the version graph
\* ------------------------------------------------------------------------
\* the scales of m that are marked as root and have no parent
Roots(m) ==
    {m[i].scale_id : i \in {j \in 1..Len(m) :
        m[j].is_root /\ m[j].parent_scale_id = NullId}}

\* id is targetId or reaches it by following parent links upward
RECURSIVE IsUnder(_, _, _, _)
IsUnder(m, id, targetId, fuel) ==
    \/ id = targetId
    \/ /\ fuel > 0
       /\ MapHas(m, id)
       /\ MapGet(m, id).parent_scale_id # NullId
       /\ IsUnder(m, MapGet(m, id).parent_scale_id, targetId, fuel - 1)

\* targetId with all its transitive descendants in m
Subtree(m, targetId) ==
    {id \in MapKeys(m) : IsUnder(m, id, targetId, Len(m))}

\* C1: in every reachable state every non-root scale's parent_scale_id is
\* the id of a scale present in the collection (no orphaned branch).
C1_NoOrphanedBranch ==
    \A i \in 1..Len(scales) :
        ~scales[i].is_root => MapHas(scales, scales[i].parent_scale_id)

\* C2: whenever the collection holds scales, exactly one of them is a root
\* (is_root and no parent); two roots never coexist.
C2_ExactlyOneRoot ==
    Len(scales) > 0 => Cardinality(Roots(scales)) = 1

\* C3: a confirmed delete of a non-root scale X removes exactly X and its
\* transitive descendants; every other scale stays, unchanged, and no scale
\* that stays has a parent in the removed set.
C3_DeleteRemovesExactlyCascade ==
    [][\A X \in MapKeys(scales) :
         (HandleDeleteScale(X, TRUE) /\ ~MapGet(scales, X).is_root) =>
            /\ MapKeys(scales') = MapKeys(scales) \ Subtree(scales, X)
            /\ \A id \in MapKeys(scales') :
                  MapGet(scales', id) = MapGet(scales, id)
            /\ \A id \in MapKeys(scales') :
                  MapGet(scales', id).parent_scale_id
                      \notin Subtree(scales, X)]_vars

\* a delete of skala-genz has taken its branch with it and left the rest
C3_Witness ==
    /\ lastEvent = "deleted"
    /\ removedIds = {MockGenzId, BranchId(MockGenzId, 1)}
    /\ MapKeys(scales) = {MockRootId, MockBoomerId}

\* C4: a delete request on a root scale is refused with the collection and
\* the active selection unchanged, and prepareDelete decides the refusal
\* without computing a cascade set.
C4_RootDeleteRefused ==
    [][\A X \in MapKeys(scales), c \in BOOLEAN :
         (HandleDeleteScale(X, c) /\ MapGet(scales, X).is_root) =>
            /\ prepareDelete(X, scales).canDelete = FALSE
            /\ prepareDelete(X, scales).computed = FALSE
            /\ prepareDelete(X, scales).error = "root_protected"
            /\ scales' = scales
            /\ activeScaleId' = activeScaleId]_vars

\* a delete of the root has been refused while it has branches
C4_Witness ==
    /\ lastEvent = "root_protected"
    /\ Len(scales) > 1
    /\ Cardinality(Roots(scales)) = 1

\* C5: a branching attempt that fails (the adaptation call throws, or its
\* result fails validation) leaves the collection as it was, and the part
\* of handleBranchingSubmit before the await inserts nothing: a scale is
\* inserted only by the step that has validated and assembled it.
C5_FailedBranchLeavesCollection ==
    [][/\ \A i \in 1..Len(adaptCalls), threw \in BOOLEAN, g \in GptResults :
            (AdaptSettles(i, threw, g) /\ (threw \/ ~validateGptScale(g).valid))
               => scales' = scales
       /\ \A intent \in {"", "gen-z"} :
            HandleBranchingSubmit(intent) => scales' = scales]_vars

\* an attempt has ended in a validation failure
C5_Witness ==
    /\ lastEvent = "validation_failed"
    /\ adaptCalls = <<>>
    /\ Len(scales) > 0

\* C6: a submit made while isBranchingInProgress is true is rejected at
\* once: no adaptation call is added, nothing is queued or inserted; at
\* most one adaptation call is outstanding at any time.
C6_SecondSubmitRejected ==
    /\ [](Len(adaptCalls) <= 1)
    /\ [][\A intent \in {"", "gen-z"} :
            (isBranchingInProgress /\ HandleBranchingSubmit(intent)) =>
               /\ adaptCalls' = adaptCalls
               /\ scales' = scales
               /\ lastEvent' = "rejected_in_progress"]_vars

\* a second submit has been rejected while the first call is outstanding
C6_Witness ==
    /\ lastEvent = "rejected_in_progress"
    /\ isBranchingInProgress
    /\ Len(adaptCalls) = 1

\* C7: whenever the in-progress guard is set it is eventually reset, and it
\* is never set while no attempt is outstanding.
C7_GuardAlwaysReleased ==
    /\ isBranchingInProgress ~> ~isBranchingInProgress
    /\ [](isBranchingInProgress => Len(adaptCalls) > 0)

\* an attempt has ended in a transport failure and the guard is reset
C7_Witness ==
    /\ lastEvent = "transport_failed"
    /\ ~isBranchingInProgress
    /\ adaptCalls = <<>>

\* C8: once an id has been removed from the collection, no later branch
\* creation inserts a scale under that id.
C8_RemovedIdNeverReused ==
    [][\A i \in 1..Len(adaptCalls), g \in GptResults :
         (AdaptSettles(i, FALSE, g) /\ validateGptScale(g).valid) =>
            AssembleBranch(scales, adaptCalls[i].sourceScaleId, g).scale_id
                \notin removedIds]_vars

\* this step puts a newly created object under id, replacing the old one
Recreated(id) ==
    \/ HandleLoadMock /\ id \in {MockGenzId, MockBoomerId}
    \/ \E i \in 1..Len(adaptCalls), g \in GptResults :
          /\ AdaptSettles(i, FALSE, g)
          /\ validateGptScale(g).valid
          /\ AssembleBranch(scales, adaptCalls[i].sourceScaleId, g).scale_id
                = id

C10_CascadeIsSubtree ==
    cascade.target # NullId =>
        /\ cascade.ids = Subtree(scales, cascade.target)
        /\ buildCascadeDeleteSet(Reverse(scales), cascade.target)
              = cascade.ids

\* on the chain root -> 1 -> 2 -> 3, stored deepest first, the query for
\* node 1 has answered {1, 2, 3}
C10_Witness ==
    /\ Len(scales) = 4
    /\ [i \in 1..4 |-> scales[i].scale_id]
          = <<GraphId(3), GraphId(2), GraphId(1), GraphId(0)>>
    /\ scales[1].parent_scale_id = GraphId(2)
    /\ scales[2].parent_scale_id = GraphId(1)
    /\ scales[3].parent_scale_id = GraphId(0)
    /\ cascade = [target |-> GraphId(1),
                  ids |-> {GraphId(1), GraphId(2), GraphId(3)}]

\* C11: every non-root scale has positionLocked = true and, when its parent
\* is in the collection, depth equal to the parent's depth plus one.
C11_BranchLockedAndOneDeeper ==
    \A i \in 1..Len(scales) :
        ~scales[i].is_root =>
            /\ scales[i].positionLocked
            /\ MapHas(scales, scales[i].parent_scale_id) =>
                  scales[i].depth
                    = MapGet(scales, scales[i].parent_scale_id).depth + 1

\* C12: every scale with is_root = true has no parent_scale_id and depth 0.
C12_RootHasNoParentDepthZero ==
    \A i \in 1..Len(scales) :
        scales[i].is_root =>
            /\ scales[i].parent_scale_id = NullId
            /\ scales[i].depth = 0

\* a root built by structured ingest and the root of the mock load are
\* both in the collection
C12_Witness ==
    /\ MapHas(scales, ImportedId) /\ MapHas(scales, MockRootId)
    /\ MapGet(scales, ImportedId).is_root
    /\ MapGet(scales, ImportedId).scale_name = "gpt"
    /\ MapGet(scales, MockRootId).is_root

\* the fields add() must find in a payload
RequiredFields(scale) ==
    {"scale_id", "scale_name", "dimensions", "position"} \cup
    (IF scale.is_root THEN {}
     ELSE {"parent_scale_id", "branch_index", "positionLocked"})

\* field f of the payload is missing or has a value add() must refuse
FieldFails(scale, f) ==
    CASE f = "positionLocked" -> scale.positionLocked # TRUE
      [] f = "branch_index" ->
            "branch_index" \notin scale.has \/ scale.branch_index < 0
      [] OTHER -> f \notin scale.has

\* the field a diagnostic of the Invariants module names
NamedField(message) ==
    CASE message = "Scale must have scale_id" -> "scale_id"
      [] message = "Scale must have scale_name" -> "scale_name"
      [] message = "Scale must have dimensions array" -> "dimensions"
      [] message = "Scale must have position {x, y}" -> "position"
      [] message = "Non-root scale must have parent_scale_id"
            -> "parent_scale_id"
      [] message = "Branched scale must have non-negative branch_index"
            -> "branch_index"
      [] message = "Branched scale must have positionLocked=true"
            -> "positionLocked"
      [] OTHER -> "none"

\* C13: in strict mode addScale inserts a payload exactly when every
\* required field passes; otherwise the collection is unchanged and the
\* diagnostic names a field of the payload that fails, and it names
\* dimensions when dimensions is the only field that fails.
C13_StrictAddValidates ==
    [][\A scale \in Payloads :
         StoreAddScale(scale, TRUE) =>
            IF \A f \in RequiredFields(scale) : ~FieldFails(scale, f)
            THEN /\ MapHas(scales', scale.scale_id)
                 /\ MapGet(scales', scale.scale_id) = scale
            ELSE /\ scales' = scales
                 /\ NamedField(lastEvent') \in RequiredFields(scale)
                 /\ FieldFails(scale, NamedField(lastEvent'))
                 /\ {f \in RequiredFields(scale) : FieldFails(scale, f)}
                       = {"dimensions"}
                    => NamedField(lastEvent') = "dimensions"]_vars

\* a payload without dimensions has been refused while the store holds a
\* scale
C13_Witness ==
    /\ lastEvent = "Scale must have dimensions array"
    /\ Len(scales) = 1

\* the full required shape of an adaptation payload
DimFullShape(dim) ==
    /\ ~dim.isNull
    /\ dim.name # ""
    /\ dim.itemsIsArray
    /\ Len(dim.items) > 0
    /\ \A j \in 1..Len(dim.items) :
          ~dim.items[j].isNull /\ dim.items[j].text # ""

FullShape(g) ==
    /\ ~g.isNull
    /\ g.scale_name_type = "string"
    /\ g.dimsIsArray
    /\ Len(g.dimensions) > 0
    /\ \A d \in 1..Len(g.dimensions) : DimFullShape(g.dimensions[d])

\* the diagnostics that name a required field the payload gets wrong
FieldDiagnostics(g) ==
    (IF g.scale_name_type # "string" THEN {"Missing scale_name"} ELSE {})
    \cup (IF ~g.dimsIsArray \/ Len(g.dimensions) = 0
          THEN {"Missing or empty dimensions", "Missing dimensions"}
          ELSE {})
    \cup {"Dimension " \o ToString(d) \o " missing name" :
            d \in {k \in 1..Len(g.dimensions) :
                     g.dimensions[k].isNull \/ g.dimensions[k].name = ""}}
    \cup {"Dimension \"" \o g.dimensions[d].name \o "\" has no items" :
            d \in {k \in 1..Len(g.dimensions) :
                     /\ ~g.dimensions[k].isNull
                     /\ \/ ~g.dimensions[k].itemsIsArray
                        \/ Len(g.dimensions[k].items) = 0}}
    \cup UNION
          {{"Item " \o ToString(j) \o " in \"" \o g.dimensions[d].name
              \o "\" missing text" :
              j \in {i \in 1..Len(g.dimensions[d].items) :
                       \/ g.dimensions[d].items[i].isNull
                       \/ g.dimensions[d].items[i].text = ""}} :
            d \in {k \in 1..Len(g.dimensions) : ~g.dimensions[k].isNull}}

\* C14: on a payload that is an object without an error field, the
\* adaptation validator never throws, answers valid = true exactly for the
\* full required shape, and otherwise answers valid = false with an error
\* that names a required field the payload gets wrong.
C14_ValidatorRejectsBadShape ==
    (/\ adaptation.stage \in {"validated", "assembled"}
     /\ ~adaptation.gpt.isNull
     /\ adaptation.gpt.error = "")
    => /\ ~adaptation.validation.threw
       /\ adaptation.validation.valid <=> FullShape(adaptation.gpt)
       /\ ~adaptation.validation.valid
            => adaptation.validation.error
                 \in FieldDiagnostics(adaptation.gpt)

\* the payload's dimension count, or some dimension's item count, differs
\* from the source scale's
CountsDiffer(g, sourceDims) ==
    \/ Len(g.dimensions) # Len(sourceDims)
    \/ \E d \in 1..Min(Len(g.dimensions), Len(sourceDims)) :
          Len(g.dimensions[d].items) # Len(sourceDims[d].items)

\* C15: a payload of the full required shape whose counts differ from the
\* source's is answered valid = true with warnings and no error, assembly
\* is enabled, and once it ran the branch is in the collection with the
\* payload's own dimension and item counts.
C15_CountDriftAccepted ==
    (/\ adaptation.stage \in {"validated", "assembled"}
     /\ adaptation.adapterLoaded
     /\ FullShape(adaptation.gpt)
     /\ CountsDiffer(adaptation.gpt, SourceDimensions))
    => /\ ~adaptation.validation.threw
       /\ adaptation.validation.valid
       /\ adaptation.validation.error = ""
       /\ Len(adaptation.validation.warnings) > 0
       /\ adaptation.stage = "validated" => ENABLED AdapterAssemble
       /\ adaptation.stage = "assembled" =>
            /\ ~adaptation.assembled.threw
            /\ Len(scales) = Len(adaptation.lineage) + 1
            /\ scales[Len(scales)].parent_scale_id
                 = scales[Len(scales) - 1].scale_id
            /\ Len(adaptation.assembled.dimensions)
                 = Len(adaptation.gpt.dimensions)
            /\ \A d \in 1..Len(adaptation.gpt.dimensions) :
                  Len(adaptation.assembled.dimensions[d].items)
                    = Len(adaptation.gpt.dimensions[d].items)

\* a two-dimension payload for a one-dimension source has been assembled
\* and inserted
C15_Witness ==
    /\ adaptation.stage = "assembled"
    /\ adaptation.adapterLoaded
    /\ Len(adaptation.gpt.dimensions) = 2
    /\ Len(SourceDimensions) = 1
    /\ Len(adaptation.validation.warnings) > 0
    /\ Len(scales) = 2

\* C16: when the structuring service answers is_valid_scale = false the
\* ingest stops with the rejection reported: the collection and the active
\* selection are what they were, the call is over, and isProcessing is
\* released.
C16_RejectedUploadLeavesState ==
    [][\A r \in StructResults :
         (StructureDone(r) /\ r.is_valid_scale = FALSE) =>
            /\ scales' = scales
            /\ activeScaleId' = activeScaleId
            /\ lastEvent' = "upload_rejected"
            /\ ingest'.structuring = ingest.structuring - 1
            /\ ingest'.confirming = ingest.confirming
            /\ isProcessing' = FALSE]_vars

\* an upload was rejected while the collection held scales
C16_Witness ==
    /\ lastEvent = "upload_rejected"
    /\ Len(scales) > 0
    /\ activeScaleId \in MapKeys(scales)
    /\ ~isProcessing

\* C17: every step that changes the set of scales in the collection is a
\* Scale Store operation: addScale of a scale of the new collection,
\* removeScale, removeScalesCascade or clear.
C17_StoreIsOnlyGateway ==
    [][MapKeys(scales') # MapKeys(scales) =>
         \/ \E i \in 1..Len(scales') : StoreAddScale(scales'[i], FALSE)
         \/ \E scaleId \in MapKeys(scales) : StoreRemoveScale(scaleId)
         \/ \E scaleIds \in SUBSET MapKeys(scales) :
               StoreRemoveScalesCascade(scaleIds)
         \/ StoreClear]_vars

\* positions (dimension, item) of the assembled dimensions
AssembledPositions ==
    UNION {{<<d, j>> :
              j \in 1..Len(adaptation.assembled.dimensions[d].items)} :
           d \in 1..Len(adaptation.assembled.dimensions)}

Assembled ==
    /\ adaptation.stage = "assembled"
    /\ ~adaptation.assembled.threw

\* the adaptation supplied tags for the item: current_rubric present and
\* non-empty
TagsSupplied(item) ==
    item.current_rubric # NoRubric /\ item.current_rubric # <<>>

\* C18: for every assembled item with a source item at the same position,
\* current_rubric is the source item's baseline_rubric when the adaptation
\* item's current_rubric is absent or empty, and the supplied tags
\* otherwise.
C18_CurrentRubricFallsBack ==
    Assembled =>
       \A pos \in AssembledPositions :
          HasSourceItem(SourceDimensions, pos[1], pos[2]) =>
             LET item == adaptation.gpt.dimensions[pos[1]].items[pos[2]]
                 out == adaptation.assembled.dimensions[pos[1]].items[pos[2]]
                 src == SourceDimensions[pos[1]].items[pos[2]]
             IN out.current_rubric =
                   IF TagsSupplied(item) THEN item.current_rubric
                   ELSE src.baseline_rubric

\* C20: an assembled item's rubric_source is 'gpt' exactly when its
\* current_rubric is the tags the adaptation supplied, and 'parent' exactly
\* when current_rubric fell back to baseline_rubric.
C20_RubricSourceMatchesOrigin ==
    Assembled =>
       \A pos \in AssembledPositions :
          LET item == adaptation.gpt.dimensions[pos[1]].items[pos[2]]
              out == adaptation.assembled.dimensions[pos[1]].items[pos[2]]
          IN /\ out.rubric_source \in {"gpt", "parent"}
             /\ out.rubric_source = "gpt" <=>
                   (TagsSupplied(item)
                      /\ out.current_rubric = item.current_rubric)
             /\ out.rubric_source = "parent" <=>
                   (~TagsSupplied(item)
                      /\ out.current_rubric = out.baseline_rubric)

Generations ==
    IF Assembled
    THEN Append(adaptation.lineage, adaptation.assembled.dimensions)
    ELSE adaptation.lineage

\* position pos exists in every generation from g to h
InEveryGeneration(pos, g, h) ==
    \A k \in g..h : HasSourceItem(Generations[k], pos[1], pos[2])

BaselineCopiedWhereSourceExists ==
    /\ Assembled =>
          \A pos \in AssembledPositions :
             LET out ==
                   adaptation.assembled.dimensions[pos[1]].items[pos[2]]
             IN IF HasSourceItem(SourceDimensions, pos[1], pos[2])
                THEN out.baseline_rubric
                       = SourceDimensions[pos[1]].items[pos[2]]
                           .baseline_rubric
                ELSE out.baseline_rubric
                       \in {<<"Mock Rubric">>, <<"Placeholder">>}
    /\ \A g \in 1..Len(Generations), h \in 1..Len(Generations) :
          g < h =>
             \A pos \in (1..MaxDims) \X (1..MaxItems) :
                InEveryGeneration(pos, g, h) =>
                   Generations[h][pos[1]].items[pos[2]].baseline_rubric
                     = Generations[g][pos[1]].items[pos[2]].baseline_rubric

\* no step changes a generation that exists
GenerationsKept ==
    /\ Len(Generations') >= Len(adaptation.lineage)
    /\ \A k \in 1..Len(adaptation.lineage) :
          Generations'[k] = Generations[k]
    /\ (Assembled /\ Len(adaptation'.lineage) > Len(adaptation.lineage))
          => adaptation'.lineage = Generations

C21_OriginIsSourceItemId ==
    Assembled =>
       \A pos \in AssembledPositions :
          adaptation.assembled.dimensions[pos[1]].items[pos[2]].origin_item_id
            = IF HasSourceItem(SourceDimensions, pos[1], pos[2])
              THEN SourceDimensions[pos[1]].items[pos[2]].item_id
              ELSE "unknown"

\* a branch of a branch has been assembled with one item that has a source
\* item and one that has none
C21_Witness ==
    /\ Assembled
    /\ Len(adaptation.lineage) = 2
    /\ \E pos \in AssembledPositions :
          adaptation.assembled.dimensions[pos[1]].items[pos[2]].origin_item_id
            = "root-branch-1-item-1"
    /\ \E pos \in AssembledPositions :
          adaptation.assembled.dimensions[pos[1]].items[pos[2]].origin_item_id
            = "unknown"

\* the item_ids of a scale's dimensions, in order
RECURSIVE ItemIdsFrom(_, _)
ItemIdsFrom(dims, d) ==
    IF d > Len(dims) THEN <<>>
    ELSE [j \in 1..Len(dims[d].items) |-> dims[d].items[j].item_id]
           \o ItemIdsFrom(dims, d + 1)

PairwiseDistinct(q) ==
    \A a \in 1..Len(q), b \in 1..Len(q) : a # b => q[a] # q[b]

\* C22 for imported roots: within the root buildScaleFromGPT builds, all
\* item_ids are pairwise distinct.
C22_ItemIdsDistinct ==
    adaptation.stage = "imported" =>
        PairwiseDistinct(ItemIdsFrom(adaptation.dimensions, 1))

Recomputed(m, s) ==
    LET p == editorNextBranchPosition(m, s.parent_scale_id, s.branch_index)
    IN Pos(p.x, p.y)

ParentIn(m, s) ==
    IF MapHas(m, s.parent_scale_id) THEN MapGet(m, s.parent_scale_id)
    ELSE NoScale

C25_UnknownIdGivesEmptyResults ==
    (adaptation.stage = "queried" /\ ~MapHas(scales, adaptation.id)) =>
        /\ adaptation.children = <<>>
        /\ adaptation.descendants = <<>>
        /\ adaptation.cascade_delete_set = {}
        /\ adaptation.siblings = <<>>
        /\ adaptation.parent = NoScale
        /\ adaptation.branch_count = 0

\* C26: a Store mutation whose target is not in the collection -
\* removeScale or updateScale of an absent id, removeScalesCascade over
\* absent ids only - leaves the collection, with every scale's fields, and
\* the active selection as they were.
C26_AbsentTargetIsNoOp ==
    [][/\ \A scaleId \in {MockRootId, MockGenzId} :
            (~MapHas(scales, scaleId)
               /\ (\/ StoreRemoveScale(scaleId)
                   \/ \E updates \in StoreUpdates :
                         StoreUpdateScale(scaleId, updates)))
            => (scales' = scales /\ activeScaleId' = activeScaleId)
       /\ \A scaleIds \in SUBSET {MockRootId, MockGenzId} :
            (scaleIds \cap MapKeys(scales) = {}
               /\ StoreRemoveScalesCascade(scaleIds))
            => (scales' = scales /\ activeScaleId' = activeScaleId)]_vars

\* an absent id was removed from a store that holds a scale, with the
\* absent id being the active selection
C26_Witness ==
    /\ lastEvent = "not_removed"
    /\ Len(scales) = 1
    /\ activeScaleId = MockRootId
    /\ ~MapHas(scales, MockRootId)


\* ------------------------------------------------------------------------
\* Item text edits
\* ------------------------------------------------------------------------
\* the edit of the open item box that changes state: the typed text differs
\* from the backup, is not empty, and the scale is in the Map
EditApplies(newText) ==
    /\ adaptation.activeEditItem # NoEditItem
    /\ newText # adaptation.editBackupText
    /\ newText # ""
    /\ MapHas(scales, adaptation.activeEditItem.scaleId)

\* the texts of a scale's items, by position
Texts(scale) ==
    [d \in 1..Len(scale.dimensions) |->
        [j \in 1..Len(scale.dimensions[d].items) |->
            scale.dimensions[d].items[j].text]]

\* C27: while an adaptation call is outstanding, an edit of an item's text
\* takes effect in the step that confirms it, and when the call completes,
\* with either outcome, every scale edited during the call still holds the
\* texts it held just before the completion.
C27_EditSurvivesAdaptation ==
    [][/\ \A newText \in EditTyped :
             (isBranchingInProgress /\ EditApplies(newText)
                /\ EditConfirm(newText))
             => LET e == adaptation.activeEditItem
                IN ItemAt(scales', e.scaleId, e.d, e.j).text = newText
       /\ (\E i \in 1..Len(adaptCalls), threw \in BOOLEAN,
              g \in EditGptResults : EditAdaptSettles(i, threw, g))
             => \A id \in adaptation.editedScales \cap MapKeys(scales) :
                   /\ MapHas(scales', id)
                   /\ Texts(MapGet(scales', id)) = Texts(MapGet(scales, id))
      ]_vars

\* C29: the edit that changes an item's text changes the text field of that
\* one item and nothing else in the Map; an edit to empty text leaves the
\* Map as it is.
C29_EditChangesOnlyThatText ==
    [][\A newText \in EditTyped :
          EditConfirm(newText)
          => LET e == adaptation.activeEditItem
             IN IF EditApplies(newText)
                THEN scales' =
                       [scales EXCEPT ![MapIndex(scales, e.scaleId)] =
                          [@ EXCEPT !.dimensions[e.d].items[e.j].text =
                                       newText]]
                ELSE newText = "" => scales' = scales
      ]_vars

\* an entry point of the ingest is used: click, keyboard, file selection or
\* drag-and-drop
UploadAttempt ==
    \/ UploadClick
    \/ \E key \in {"Enter", " "} : UploadKeydown(key)
    \/ \E isCSV \in BOOLEAN : UploadFileSelect(isCSV)
    \/ \E isCSV \in BOOLEAN : UploadDrop(isCSV)

\* C28: an ingest attempt made while isProcessing is true, through any of
\* the four entry points, starts no pipeline, and at no time are two ingest
\* pipelines under way.
C28_SecondIngestRejected ==
    [][/\ (isProcessing /\ UploadAttempt) => ingest' = ingest
       /\ IngestCount' <= 1]_vars

\* the Map holds just the scales named, and the scale id sits at (px, py)
OnlyScales(m, ids) == MapKeys(m) = ids /\ Len(m) = Cardinality(ids)
SitsAt(m, id, px, py) == MapHas(m, id) /\ MapGet(m, id).position = Pos(px, py)

C31_ResultDiscardedWhenSourceGone ==
    [][\A i \in 1..Len(adaptCalls), threw \in BOOLEAN, g \in GptResults :
          (~MapHas(scales, adaptCalls[i].sourceScaleId)
             /\ AdaptSettles(i, threw, g))
          => scales' = scales]_vars

\* C32: a completed adaptation that inserts a branch gives it an id no scale
\* in the Map has, so the Map grows by exactly one scale and every scale that
\* was in it is still there unchanged.
C32_NewBranchIdIsFresh ==
    [][\A i \in 1..Len(adaptCalls), g \in EditGptResults :
          (EditAdaptSettles(i, FALSE, g) /\ lastEvent' = "inserted")
          => /\ Len(scales') = Len(scales) + 1
             /\ \A k \in 1..Len(scales) : scales'[k] = scales[k]]_vars

\* the scales of m that share a parent with another scale of m and have its
\* branch_index, or its position
SiblingsSharingIndex(m) ==
    {<<a, b>> \in (1..Len(m)) \X (1..Len(m)) :
        /\ a < b
        /\ m[a].parent_scale_id # NullId
        /\ m[a].parent_scale_id = m[b].parent_scale_id
        /\ m[a].branch_index = m[b].branch_index}
SiblingsSharingPosition(m) ==
    {<<a, b>> \in (1..Len(m)) \X (1..Len(m)) :
        /\ a < b
        /\ m[a].parent_scale_id # NullId
        /\ m[a].parent_scale_id = m[b].parent_scale_id
        /\ m[a].position = m[b].position}

\* C33: no two scales with the same parent have the same branch_index, and
\* no two of them sit at the same position.
C33_SiblingIndexUnique ==
    /\ SiblingsSharingIndex(scales) = {}
    /\ SiblingsSharingPosition(scales) = {}

\* the active selection is null or names a scale of the Map
ActiveScaleIsPresent == activeScaleId = NullId \/ MapHas(scales, activeScaleId)

\* C34: activeScaleId is always null or the id of a scale in the Map, and a
\* step that takes the scale it names out of the Map (remove, cascade
\* remove, clear) leaves it null or naming a scale of the new Map.
C34_ActiveScaleNeverDangles ==
    /\ []ActiveScaleIsPresent
    /\ [][(MapHas(scales, activeScaleId) /\ ~MapHas(scales', activeScaleId))
             => ActiveScaleIsPresent']_vars

\* the ids of a sequence
Range(q) == {q[i] : i \in 1..Len(q)}

\* a call of getDescendants that has been made ends
TraversalReturns ==
    (adaptation.stage = "running") ~> (adaptation.stage = "returned")

\* C35: for a target in the Map, getDescendants(target) returns, what it
\* returns does not contain the target, and buildCascadeDeleteSet(target)
\* is the target together with what it returns.
C35_CascadeIsTargetPlusDescendants ==
    /\ TraversalReturns
    /\ [](adaptation.stage = "returned"
            => /\ adaptation.rootId \notin Range(adaptation.descendants)
               /\ adaptation.cascade_delete_set =
                     {adaptation.rootId} \cup Range(adaptation.descendants))

\* C36: on a Map of n scales, getDescendants tests its queue at most n + 1
\* times and then returns, whatever the parent references are: a cycle or a
\* scale that is its own parent does not keep the loop going.
C36_TraversalTerminates ==
    /\ [](adaptation.stage = "running"
            => Len(adaptation.descendants) < Len(scales))
    /\ <>[](adaptation.stage # "running")

\* C37: a submit made while no call is outstanding, with an empty intent or
\* with a source that is not in the Map, leaves the in-progress guard false,
\* issues no adaptation call and leaves the Map as it is.
C37_RejectedSubmitLeavesGuard ==
    [][\A intent \in {"", "gen-z"} :
          (/\ ~isBranchingInProgress
           /\ (intent = "" \/ ~MapHas(scales, branchingFromScaleId))
           /\ HandleBranchingSubmit(intent))
          => /\ isBranchingInProgress' = FALSE
             /\ adaptCalls' = adaptCalls
             /\ scales' = scales]_vars

\* a submit was rejected because its source is gone, and the guard is free
C37_Witness ==
    /\ lastEvent = "rejected_source_not_found"
    /\ ~isBranchingInProgress
    /\ adaptCalls = <<>>
    /\ ~MapHas(scales, branchingFromScaleId)

\* C38: a call of fetchWithRetry issues at most maxRetries requests; when it
\* ends it has returned a response with a 2xx status or thrown an error
\* whose type is one of the six error types; it never ends without either,
\* and once a request is out the call does end.
C38_FetchEndsWithResponseOrTypedError ==
    /\ [](adaptation.requests <= maxRetries)
    /\ [](adaptation.stage = "thrown" => adaptation.type \in ErrorType)
    /\ [](adaptation.stage = "returned"
            => LET last == adaptation.settled[Len(adaptation.settled)]
               IN last.kind = "response"
                    /\ last.status >= 200 /\ last.status <= 299)
    /\ [](adaptation.stage # "completed_undefined")
    /\ (adaptation.stage = "fetching")
          ~> (adaptation.stage \in {"returned", "thrown"})

\* three requests were made, each answered with a server error, and the
\* call ended with the typed error
C38_Witness ==
    /\ adaptation.stage = "thrown"
    /\ adaptation.type = "SERVER_ERROR"
    /\ adaptation.requests = maxRetries
    /\ Len(adaptation.settled) = maxRetries
====
